---------------------------- MODULE Spec2Model ----------------------------
(***************************************************************************)
(* Control core of the IP-over-WDM SDN controller                          *)
(* (src/Controller-10.30.7.52/ip-sdn-controller): the resource store       *)
(* (core/linkdb_client.py, a Redis client), the path computer              *)
(* (core/path_computer.py) and the connection manager                      *)
(* (core/connection_manager.py).                                           *)
(*                                                                         *)
(* The store is one record, db; every LinkDBClient method is an operator   *)
(* from a store (and arguments) to [db |-> store after, ok |-> result], so *)
(* that a handler that makes several store calls is one action.            *)
(***************************************************************************)
EXTENDS Integers, Sequences, FiniteSets, TLC

\* ------------------------------------------------------------------ bounds

\* Number of slot indices of a link. The code uses range(320)
\* (linkdb_client.py:105, 283); the model scales it down.
NumSlots == 3

\* Connection identifiers (request.connection_id or a generated uuid).
ConnIds == {"c1", "c2"}

\* Cap on Connection.reconfig_count, which the manager never bounds itself.
MaxReconfigCount == 1

\* ------------------------------------------------------------- topology

Slots == 0 .. (NumSlots - 1)

\* POPs of the topology, and one identifier that names no POP.
POPs == {"A", "B", "C"}
NoPop == "X"

\* PopNode.router_ids of each POP, in stored order.
router_ids == [A |-> <<"r1", "r2">>, B |-> <<>>, C |-> <<"r3", "r4">>]

\* NetworkLink records: pop_a, pop_b, distance_km.
links ==
  [L1 |-> [source_pop |-> "A", destination_pop |-> "B", length_km |-> 100],
   L2 |-> [source_pop |-> "B", destination_pop |-> "C", length_km |-> 100]]

LinkIds == DOMAIN links

\* Keys interface:<pop>:<router>:<name> that exist in the store.
IfaceKeys ==
  {<<"A", "r1", "eth0">>, <<"A", "r2", "eth0">>,
   <<"C", "r3", "eth0">>, <<"C", "r4", "eth0">>}

None == "None"

\* ConnectionStatus
Statuses ==
  {"PENDING", "SETUP_IN_PROGRESS", "ACTIVE", "DEGRADED", "RECONFIGURING",
   "TEARDOWN_IN_PROGRESS", "FAILED", "TERMINATED"}

\* ConnectionEvent
Events ==
  {"SETUP_REQUESTED", "SETUP_COMPLETED", "SETUP_FAILED", "DEGRADATION_DETECTED",
   "RECONFIG_REQUESTED", "RECONFIG_COMPLETED", "RECONFIG_FAILED",
   "TEARDOWN_REQUESTED", "TEARDOWN_COMPLETED", "TEARDOWN_FAILED"}

\* ------------------------------------------------------------- helpers

Min(S) == CHOOSE x \in S : \A y \in S : x <= y

RECURSIVE SortedSeq(_)
\* sorted(list(S)) of a set of integers
SortedSeq(S) == IF S = {} THEN <<>> ELSE <<Min(S)>> \o SortedSeq(S \ {Min(S)})

SeqSet(s) == {s[i] : i \in DOMAIN s}

\* dict without a key / dict with a key set
DictDel(f, k) == [x \in DOMAIN f \ {k} |-> f[x]]
DictPut(f, k, v) == [x \in DOMAIN f \cup {k} |-> IF x = k THEN v ELSE f[x]]
EmptyDict == [x \in {} |-> x]

VARIABLES
  db,           \* the Redis store behind LinkDBClient
  connections,  \* ConnectionManager.connections (in-memory index)
  json_bound,   \* whether the name json resolves in core/connection_manager.py
  ret,          \* the last operation and what it returned
  qot,          \* QoTMonitor.connection_states
  now,          \* datetime.utcnow(), in seconds
  thr,          \* the position and the locals of each thread inside a call
  bus,          \* the Kafka producer and the config topic
  agents        \* AgentDispatcher.agents

\* what the calls made one at a time leave alone
others == <<thr, bus, agents>>

\* what the operations of the store, the path computer and the connection
\* manager leave alone
fixed == <<json_bound, qot, now, others>>

vars == <<db, connections, json_bound, ret, qot, now, thr, bus, agents>>

\* no thread inside a call, nothing sent, no agent registered
Quiet ==
  /\ thr = << >>
  /\ bus = << >>
  /\ agents = << >>

\* ------------------------------------------------- LinkDBClient (store)
\* db.up      : the Redis server answers (otherwise every call raises and the
\*              method's except branch returns its failure value)
\* db.slots   : slots:<link>, the Redis set of free slot indices; Redis deletes
\*              a set when its last member is removed, so the key exists
\*              exactly when the set is non-empty
\* db.occupied: field occupied_slots of link:<link>, a JSON dict conn -> slots
\* db.iface   : interface:<pop>:<router>:<name> hashes
\* db.records : connection:<id> hashes, with the set 'connections'

Res(s, b) == [db |-> s, ok |-> b]

allocate_interface(s, pop_id, router_id, interface, connection_id) ==
  LET key == <<pop_id, router_id, interface>> IN
  IF ~s.up THEN Res(s, FALSE)
  ELSE IF key \notin DOMAIN s.iface THEN Res(s, FALSE)
  ELSE IF s.iface[key].status # "AVAILABLE"
          \/ s.iface[key].current_connection # "null" THEN Res(s, FALSE)
  ELSE Res([s EXCEPT !.iface[key] =
              [status |-> "OCCUPIED", current_connection |-> connection_id]], TRUE)

release_interface(s, pop_id, router_id, interface) ==
  LET key == <<pop_id, router_id, interface>> IN
  IF ~s.up THEN Res(s, FALSE)
  ELSE IF key \notin DOMAIN s.iface THEN Res(s, FALSE)
  ELSE Res([s EXCEPT !.iface[key] =
              [status |-> "AVAILABLE", current_connection |-> "null"]], TRUE)

get_available_interfaces(s, pop_id, router_id) ==
  IF ~s.up THEN {}
  ELSE {k[3] : k \in {q \in DOMAIN s.iface :
                        /\ q[1] = pop_id /\ q[2] = router_id
                        /\ s.iface[q].status = "AVAILABLE"
                        /\ s.iface[q].current_connection = "null"}}

\* slots is a list (sequence) of slot indices
allocate_spectrum_slots(s, link_id, connection_id, slots) ==
  IF ~s.up THEN Res(s, FALSE)
  ELSE IF link_id \notin LinkIds THEN Res(s, FALSE)
  ELSE IF \E i \in DOMAIN slots : slots[i] \notin s.slots[link_id] THEN Res(s, FALSE)
  ELSE Res([s EXCEPT
              !.occupied[link_id] = DictPut(@, connection_id, slots),
              !.slots[link_id] = @ \ SeqSet(slots)], TRUE)

release_spectrum_slots(s, link_id, connection_id) ==
  IF ~s.up THEN Res(s, FALSE)
  ELSE IF link_id \notin LinkIds THEN Res(s, FALSE)
  ELSE IF connection_id \notin DOMAIN s.occupied[link_id] THEN Res(s, TRUE)
  ELSE Res([s EXCEPT
              !.occupied[link_id] = DictDel(@, connection_id),
              !.slots[link_id] = @ \cup SeqSet(s.occupied[link_id][connection_id])],
           TRUE)

\* sorted list of the free slots; the default range when the key is absent
get_available_slots(s, link_id) ==
  IF ~s.up THEN <<>>
  ELSE IF link_id \in LinkIds /\ s.slots[link_id] # {}
       THEN SortedSeq(s.slots[link_id])
       ELSE SortedSeq(Slots)

\* hset merges the given fields into the hash and sadd adds the id
create_connection_record(s, connection_id, connection_data) ==
  IF ~s.up THEN Res(s, FALSE)
  ELSE Res([s EXCEPT !.records = DictPut(@, connection_id, connection_data)], TRUE)

db_update_connection_status(s, connection_id, status) ==
  IF ~s.up THEN Res(s, FALSE)
  ELSE IF connection_id \notin DOMAIN s.records THEN Res(s, FALSE)
  ELSE Res([s EXCEPT !.records[connection_id].status = status], TRUE)

delete_connection_record(s, connection_id) ==
  IF ~s.up THEN Res(s, FALSE)
  ELSE IF connection_id \notin DOMAIN s.records THEN Res(s, TRUE)
  ELSE Res([s EXCEPT !.records = DictDel(@, connection_id)], TRUE)

\* ------------------------------------------------------- PathComputer
\* self.topology and self.links are loaded once, at construction, and are the
\* definitions POPs, router_ids and links above.

OtherEnd(link_id, pop) ==
  IF links[link_id].source_pop = pop THEN links[link_id].destination_pop
  ELSE IF links[link_id].destination_pop = pop THEN links[link_id].source_pop
  ELSE None

RECURSIVE WalkEnd(_, _)
\* the POP reached from pop along the links of p, None when p is no walk
WalkEnd(p, pop) ==
  IF p = <<>> THEN pop
  ELSE IF pop = None THEN None
  ELSE WalkEnd(Tail(p), OtherEnd(Head(p), pop))

RECURSIVE PathLength(_)
PathLength(p) ==
  IF p = <<>> THEN 0 ELSE links[Head(p)].length_km + PathLength(Tail(p))

\* the non-empty sequences of distinct links that lead from src to dst
WalksBetween(src, dst) ==
  {p \in UNION {[1 .. n -> LinkIds] : n \in 1 .. Cardinality(LinkIds)} :
     /\ \A i, j \in DOMAIN p : i # j => p[i] # p[j]
     /\ WalkEnd(p, src) = dst}

\* Dijkstra over the undirected graph: the links of a path of least total
\* length_km, <<>> when there is none (the code's None, or [] for src = dst)
compute_shortest_path(source_pop, destination_pop) ==
  IF source_pop \notin POPs \/ destination_pop \notin POPs THEN <<>>
  ELSE IF source_pop = destination_pop THEN <<>>
  ELSE LET W == WalksBetween(source_pop, destination_pop) IN
       IF W = {} THEN <<>>
       ELSE CHOOSE p \in W : \A q \in W : PathLength(p) <= PathLength(q)

\* available_slots[i:i + required_slots] (i counted from 1)
Window(avail, i, required_slots) ==
  [j \in 1 .. required_slots |-> avail[i + j - 1]]

\* a variant of the test that takes any window, gaps or not
AnyWindow(w) == Len(w) >= 0

\* all(current_slice[j] + 1 == current_slice[j + 1] for j in range(n - 1))
IsContiguous(w) == \A j \in 1 .. (Len(w) - 1) : w[j] + 1 = w[j + 1]

\* the first contiguous window of the link's sorted free slots, <<>> for None
find_contiguous_slots(s, link_id, required_slots) ==
  LET avail == get_available_slots(s, link_id)
      I == {i \in 1 .. (Len(avail) - required_slots + 1) :
              IsContiguous(Window(avail, i, required_slots))}
  IN IF avail = <<>> \/ I = {} THEN <<>>
     ELSE Window(avail, Min(I), required_slots)

\* a dict link -> slots, the empty dict when any link has no window
allocate_per_link_slots(s, path_links, required_slots) ==
  IF \E k \in DOMAIN path_links :
       find_contiguous_slots(s, path_links[k], required_slots) = <<>>
  THEN EmptyDict
  ELSE [l \in SeqSet(path_links) |-> find_contiguous_slots(s, l, required_slots)]

\* First-Fit over the first link alone: the other links of the path are not
\* consulted
allocate_path_slots_first_link_only(s, path_links, required_slots) ==
  IF path_links = <<>> THEN EmptyDict
  ELSE
    LET w == find_contiguous_slots(s, path_links[1], required_slots)
    IN IF w = <<>> THEN EmptyDict
       ELSE [l \in SeqSet(path_links) |-> w]

\* First-Fit: the first contiguous window of the first link that is free on
\* every other link of the path; failing that, per-link allocation
allocate_path_slots(s, path_links, required_slots) ==
  IF path_links = <<>> THEN EmptyDict
  ELSE
    LET avail == get_available_slots(s, path_links[1])
        I == {i \in 1 .. (Len(avail) - required_slots + 1) :
                /\ IsContiguous(Window(avail, i, required_slots))
                /\ \A k \in 2 .. Len(path_links) :
                     SeqSet(Window(avail, i, required_slots))
                       \subseteq SeqSet(get_available_slots(s, path_links[k]))}
    IN IF avail = <<>> THEN EmptyDict
       ELSE IF I # {}
            THEN [l \in SeqSet(path_links) |-> Window(avail, Min(I), required_slots)]
            ELSE allocate_per_link_slots(s, path_links, required_slots)

\* bits/s/Hz of a modulation format, times 25 GHz: the slot width is 12.5 GHz,
\* so ceil((bandwidth / eff) / 12.5) = ceil(2 * bandwidth / (25 * eff))
SpectralEfficiency(modulation) ==
  CASE modulation = "DP-QPSK" -> 2
    [] modulation = "DP-8QAM" -> 3
    [] modulation = "DP-16QAM" -> 4
    [] OTHER -> 4

calculate_required_slots(bandwidth_gbps, modulation) ==
  LET d == 25 * SpectralEfficiency(modulation)
      c == (2 * bandwidth_gbps + d - 1) \div d
  IN IF c < 1 THEN 1 ELSE c

\* 25 * (100 / total length) rounded to hundredths of a dB, as the one-element
\* list of the hundredths; <<>> is None (no link, or total length 0)
estimate_path_osnr(path_links) ==
  IF path_links = <<>> THEN <<>>
  ELSE IF PathLength(path_links) > 0
       THEN <<(2 * 250000 + PathLength(path_links)) \div (2 * PathLength(path_links))>>
       ELSE <<>>

\* is some router of the POP offering the interface as available
InterfaceFound(s, pop, interface) ==
  \E k \in DOMAIN router_ids[pop] :
     interface \in get_available_interfaces(s, pop, router_ids[pop][k])

validate_path(s, source_pop, destination_pop, source_interface, destination_interface) ==
  /\ source_pop \in POPs
  /\ destination_pop \in POPs
  /\ source_interface # None => InterfaceFound(s, source_pop, source_interface)
  /\ destination_interface # None =>
       InterfaceFound(s, destination_pop, destination_interface)
  /\ compute_shortest_path(source_pop, destination_pop) # <<>>

\* [path |-> list of PathSegments, error |-> None or a message]
compute_complete_path(s, source_pop, destination_pop, bandwidth_gbps, modulation) ==
  LET path_links == compute_shortest_path(source_pop, destination_pop)
      required_slots == calculate_required_slots(bandwidth_gbps, modulation)
      slot_allocations == allocate_path_slots(s, path_links, required_slots)
  IN IF path_links = <<>> THEN [path |-> <<>>, error |-> "No path found"]
     ELSE IF DOMAIN slot_allocations = {}
          THEN [path |-> <<>>, error |-> "Failed to allocate spectrum slots"]
          ELSE [path |-> [k \in DOMAIN path_links |->
                           [link_id |-> path_links[k],
                            allocated_slots |-> slot_allocations[path_links[k]]]],
                error |-> None]

\* -------------------------------------------------- ConnectionManager
\* A Connection is [status, source_pop, destination_pop, source_interface,
\* destination_interface, path, last_reconfig_time, reconfig_count]; bandwidth, modulation, the
\* timestamps, metadata and qot_history are carried by the code but read by
\* none of the operations below.

\* current_state -> event -> next_state
STATE_TRANSITIONS ==
  [PENDING |->
     [SETUP_REQUESTED |-> "SETUP_IN_PROGRESS", SETUP_FAILED |-> "FAILED"],
   SETUP_IN_PROGRESS |->
     [SETUP_COMPLETED |-> "ACTIVE", SETUP_FAILED |-> "FAILED",
      TEARDOWN_REQUESTED |-> "TEARDOWN_IN_PROGRESS"],
   ACTIVE |->
     [DEGRADATION_DETECTED |-> "DEGRADED", RECONFIG_REQUESTED |-> "RECONFIGURING",
      TEARDOWN_REQUESTED |-> "TEARDOWN_IN_PROGRESS"],
   DEGRADED |->
     [RECONFIG_REQUESTED |-> "RECONFIGURING",
      TEARDOWN_REQUESTED |-> "TEARDOWN_IN_PROGRESS"],
   RECONFIGURING |->
     [RECONFIG_COMPLETED |-> "ACTIVE", RECONFIG_FAILED |-> "DEGRADED",
      TEARDOWN_REQUESTED |-> "TEARDOWN_IN_PROGRESS"],
   TEARDOWN_IN_PROGRESS |->
     [TEARDOWN_COMPLETED |-> "TERMINATED", TEARDOWN_FAILED |-> "FAILED"],
   FAILED |->
     [TEARDOWN_REQUESTED |-> "TEARDOWN_IN_PROGRESS"],
   TERMINATED |-> EmptyDict]

\* _transition_state: is the event listed for the connection's status, and the
\* status it leads to
CanTransition(status, event) == event \in DOMAIN STATE_TRANSITIONS[status]
transition_state(status, event) ==
  IF CanTransition(status, event) THEN STATE_TRANSITIONS[status][event] ELSE status

\* the statuses _load_existing_connections does not load
NotLoaded == {"TERMINATED", "FAILED"}

\* _load_existing_connections: the index a new ConnectionManager builds from
\* the store. A record whose estimated_osnr field is the empty string makes
\* float('') raise, and the connection is skipped; the path is not restored.
load_existing_connections(s) ==
  IF ~s.up THEN EmptyDict
  ELSE [c \in {x \in DOMAIN s.records :
                 /\ s.records[x].status \notin NotLoaded
                 /\ s.records[x].estimated_osnr # <<>>} |->
          [status |-> s.records[c].status,
           source_pop |-> s.records[c].source_pop,
           destination_pop |-> s.records[c].destination_pop,
           source_interface |-> s.records[c].source_interface,
           destination_interface |-> s.records[c].destination_interface,
           path |-> <<>>,
           last_reconfig_time |-> <<>>,
           reconfig_count |-> 0]]

RECURSIVE AllocateFirstRouter(_, _, _, _, _)
\* for router_id in routers: if not allocate_interface(...): continue; break
AllocateFirstRouter(s, pop, routers, interface, connection_id) ==
  IF routers = <<>> THEN s
  ELSE LET r == allocate_interface(s, pop, Head(routers), interface, connection_id)
       IN IF r.ok THEN r.db
          ELSE AllocateFirstRouter(s, pop, Tail(routers), interface, connection_id)

RECURSIVE ReleaseFirstRouter(_, _, _, _)
\* for router_id in routers: if release_interface(...): break
ReleaseFirstRouter(s, pop, routers, interface) ==
  IF routers = <<>> THEN s
  ELSE LET r == release_interface(s, pop, Head(routers), interface)
       IN IF r.ok THEN r.db
          ELSE ReleaseFirstRouter(s, pop, Tail(routers), interface)

RECURSIVE AllocateSegments(_, _, _)
\* for segment in path_segments: if segment.allocated_slots: allocate (the
\* result is not looked at)
AllocateSegments(s, path, connection_id) ==
  IF path = <<>> THEN s
  ELSE AllocateSegments(
         IF Head(path).allocated_slots # <<>>
         THEN allocate_spectrum_slots(s, Head(path).link_id, connection_id,
                                      Head(path).allocated_slots).db
         ELSE s,
         Tail(path), connection_id)

RECURSIVE ReleaseSegments(_, _, _)
\* for segment in connection.path: release_spectrum_slots(link, connection_id)
ReleaseSegments(s, path, connection_id) ==
  IF path = <<>> THEN s
  ELSE ReleaseSegments(release_spectrum_slots(s, Head(path).link_id, connection_id).db,
                       Tail(path), connection_id)

\* Every manager operation below is an operator from the store and the index
\* to [db, connections, ok]: the store and the index after the call and the
\* value returned (ok is FALSE for a returned False or None).
Out(s, conns, b) == [db |-> s, connections |-> conns, ok |-> b]

PathLinks(path) == [k \in DOMAIN path |-> path[k].link_id]

\* the Connection object create_connection builds (lines 214-233)
NewConnection(request, path) ==
  [status |-> "PENDING",
   source_pop |-> request.source_pop,
   destination_pop |-> request.destination_pop,
   source_interface |-> request.source_interface,
   destination_interface |-> request.destination_interface,
   path |-> path,
   last_reconfig_time |-> <<>>,
   reconfig_count |-> 0]

\* conn_data, the fields written to the store (lines 239-252);
\* str(osnr) if osnr else '': <<>> is the empty string
ConnData(request, osnr) ==
  [status |-> "PENDING",
   source_pop |-> request.source_pop,
   destination_pop |-> request.destination_pop,
   source_interface |-> request.source_interface,
   destination_interface |-> request.destination_interface,
   estimated_osnr |-> IF osnr = <<0>> THEN <<>> ELSE osnr]

\* if interface: the allocation loop over the routers of the POP
AllocateEndpoint(s, pop, interface, connection_id) ==
  IF interface # None
  THEN AllocateFirstRouter(s, pop, router_ids[pop], interface, connection_id)
  ELSE s

\* lines 260-292: the source interface, the destination interface, the slots
\* of every segment, then the SETUP_REQUESTED transition written to the store
SetupResources(s, request, path, connection_id) ==
  db_update_connection_status(
    AllocateSegments(
      AllocateEndpoint(
        AllocateEndpoint(s, request.source_pop, request.source_interface, connection_id),
        request.destination_pop, request.destination_interface, connection_id),
      path, connection_id),
    connection_id, transition_state("PENDING", "SETUP_REQUESTED")).db

\* create_connection from line 209 on, computed being what compute_complete_path
\* returned. The module never imports json, so with json unbound the
\* evaluation of conn_data (json.dumps, line 248) raises NameError after the
\* connection has been put into the index (line 236); the except branch
\* returns None.
CreateWithPath(s, conns, jb, request, connection_id, computed) ==
  LET stored == DictPut(conns, connection_id, NewConnection(request, computed.path))
      rec == create_connection_record(s, connection_id,
               ConnData(request, estimate_path_osnr(PathLinks(computed.path))))
  IN IF computed.error # None THEN Out(s, conns, FALSE)
     ELSE IF ~jb THEN Out(s, stored, FALSE)
     ELSE IF ~rec.ok THEN Out(s, DictDel(stored, connection_id), FALSE)
     ELSE Out(SetupResources(rec.db, request, computed.path, connection_id),
              [stored EXCEPT ![connection_id].status =
                 transition_state("PENDING", "SETUP_REQUESTED")],
              TRUE)

create_connection(s, conns, jb, request, connection_id) ==
  IF ~validate_path(s, request.source_pop, request.destination_pop,
                    request.source_interface, request.destination_interface)
  THEN Out(s, conns, FALSE)
  ELSE CreateWithPath(s, conns, jb, request, connection_id,
         compute_complete_path(s, request.source_pop, request.destination_pop,
                               request.bandwidth_gbps, request.modulation))

\* ConnectionManager.update_connection_status: the in-memory status is set
\* first, the value returned is the store's
update_connection_status(s, conns, connection_id, status) ==
  IF connection_id \notin DOMAIN conns THEN Out(s, conns, FALSE)
  ELSE LET r == db_update_connection_status(s, connection_id, status)
       IN Out(r.db, [conns EXCEPT ![connection_id].status = status], r.ok)

\* the shape shared by complete_setup, complete_reconfiguration and
\* start_teardown: _transition_state, then update_connection_status
TransitionAndUpdate(s, conns, connection_id, event) ==
  IF connection_id \notin DOMAIN conns THEN Out(s, conns, FALSE)
  ELSE IF CanTransition(conns[connection_id].status, event)
       THEN update_connection_status(s, conns, connection_id,
              transition_state(conns[connection_id].status, event))
       ELSE Out(s, conns, FALSE)

complete_setup(s, conns, connection_id) ==
  TransitionAndUpdate(s, conns, connection_id, "SETUP_COMPLETED")

mark_degraded(s, conns, connection_id) ==
  IF connection_id \notin DOMAIN conns THEN Out(s, conns, FALSE)
  ELSE IF conns[connection_id].status = "DEGRADED" THEN Out(s, conns, TRUE)
  ELSE TransitionAndUpdate(s, conns, connection_id, "DEGRADATION_DETECTED")

\* start_reconfiguration at time t (datetime.utcnow(), line 478); an absent
\* time is <<>>
start_reconfiguration(s, conns, connection_id, t) ==
  IF connection_id \notin DOMAIN conns THEN Out(s, conns, FALSE)
  ELSE IF CanTransition(conns[connection_id].status, "RECONFIG_REQUESTED")
       THEN update_connection_status(s,
              [conns EXCEPT ![connection_id].last_reconfig_time = <<t>>,
                            ![connection_id].reconfig_count = @ + 1],
              connection_id,
              transition_state(conns[connection_id].status, "RECONFIG_REQUESTED"))
       ELSE Out(s, conns, FALSE)

complete_reconfiguration(s, conns, connection_id) ==
  TransitionAndUpdate(s, conns, connection_id, "RECONFIG_COMPLETED")

start_teardown(s, conns, connection_id) ==
  TransitionAndUpdate(s, conns, connection_id, "TEARDOWN_REQUESTED")

\* complete_teardown: the slots and interfaces are released before the
\* TEARDOWN_COMPLETED event is tried
complete_teardown(s, conns, connection_id) ==
  IF connection_id \notin DOMAIN conns THEN Out(s, conns, FALSE)
  ELSE
    LET connection == conns[connection_id]
        s1 == ReleaseSegments(s, connection.path, connection_id)
        s2 == IF connection.source_interface # None
              THEN ReleaseFirstRouter(s1, connection.source_pop,
                                      router_ids[connection.source_pop],
                                      connection.source_interface)
              ELSE s1
        s3 == IF connection.destination_interface # None
              THEN ReleaseFirstRouter(s2, connection.destination_pop,
                                      router_ids[connection.destination_pop],
                                      connection.destination_interface)
              ELSE s2
    IN IF CanTransition(connection.status, "TEARDOWN_COMPLETED")
       THEN Out(delete_connection_record(s3, connection_id).db,
                DictDel(conns, connection_id), TRUE)
       ELSE Out(s3, conns, FALSE)

\* the event each operation of the ConnectionManager raises
OpEvent ==
  [complete_setup |-> "SETUP_COMPLETED",
   mark_degraded |-> "DEGRADATION_DETECTED",
   start_reconfiguration |-> "RECONFIG_REQUESTED",
   complete_reconfiguration |-> "RECONFIG_COMPLETED",
   start_teardown |-> "TEARDOWN_REQUESTED",
   complete_teardown |-> "TEARDOWN_COMPLETED"]

\* ----------------------------------------------------------- QoTMonitor
\* OSNR in dB; pre-FEC BER in units of 1e-4, so that BER_THRESHOLD 1e-3 is 10.
\* An absent value (None) is <<>>, a present one <<v>>.
OSNR_THRESHOLD == 18
critical_osnr_threshold == 15
BER_THRESHOLD == 10
PERSISTENCY_SAMPLES == 3
COOLDOWN_SEC == 20
\* if state.reconfig_count >= 3 (line 254)
MaxReconfigAttempts == 3

QoTSample(osnr, pre_fec_ber) == [osnr |-> osnr, pre_fec_ber |-> pre_fec_ber]

\* ConnectionQoTState as constructed
NewQoTState ==
  [samples |-> <<>>,
   degradation_level |-> "NORMAL",
   reconfig_count |-> 0,
   last_reconfig_time |-> <<>>,
   cooldown_until |-> <<>>]

\* the last count elements of a list: list(self.samples)[-count:]
get_recent_samples(samples, count) ==
  IF Len(samples) <= count THEN samples
  ELSE SubSeq(samples, Len(samples) - count + 1, Len(samples))

\* add_sample. The deque keeps 100 samples; the monitor reads the last
\* PERSISTENCY_SAMPLES of them (and the newest of the last 5), so the model
\* keeps that many.
add_sample(state, sample) ==
  [state EXCEPT !.samples =
     get_recent_samples(Append(state.samples, sample), PERSISTENCY_SAMPLES)]

is_in_cooldown(state, t) ==
  state.cooldown_until # <<>> /\ t < state.cooldown_until[1]

\* the two counters of _check_degradation (lines 181-198): the OSNR test and
\* the BER test of one sample each add to a counter
OsnrCritical(sample) ==
  sample.osnr # <<>> /\ sample.osnr[1] < critical_osnr_threshold
OsnrDegraded(sample) ==
  sample.osnr # <<>> /\ ~OsnrCritical(sample) /\ sample.osnr[1] < OSNR_THRESHOLD
BerCritical(sample) ==
  sample.pre_fec_ber # <<>> /\ sample.pre_fec_ber[1] > BER_THRESHOLD * 10
BerDegraded(sample) ==
  sample.pre_fec_ber # <<>> /\ ~BerCritical(sample) /\ sample.pre_fec_ber[1] > BER_THRESHOLD

critical_samples(recent) ==
  Cardinality({i \in DOMAIN recent : OsnrCritical(recent[i])})
    + Cardinality({i \in DOMAIN recent : BerCritical(recent[i])})

degraded_samples(recent) ==
  Cardinality({i \in DOMAIN recent : OsnrDegraded(recent[i])})
    + Cardinality({i \in DOMAIN recent : BerDegraded(recent[i])})

\* lines 200-206
new_level(recent) ==
  IF critical_samples(recent) >= PERSISTENCY_SAMPLES THEN "CRITICAL"
  ELSE IF degraded_samples(recent) >= PERSISTENCY_SAMPLES THEN "DEGRADED"
  ELSE "NORMAL"

\* what a monitor step leaves: the store, the manager's index, the state of
\* the connection in the monitor, and the manager calls made, in order, each
\* with what it returned and the status it left
MonOut(s, conns, state, calls) ==
  [db |-> s, connections |-> conns, state |-> state, calls |-> calls]

Call(op, out, connection_id) ==
  [op |-> op, ok |-> out.ok,
   status |-> IF connection_id \in DOMAIN out.connections
              THEN out.connections[connection_id].status ELSE None]

\* lines 284-293, after start_reconfiguration returned True:
\* _apply_reconfiguration returns True, the counters and the cooldown are
\* set, complete_reconfiguration is called
FinishReconfiguration(started, state, connection_id, t, calls) ==
  LET done == complete_reconfiguration(started.db, started.connections, connection_id)
  IN MonOut(done.db, done.connections,
            [state EXCEPT !.reconfig_count = @ + 1,
                          !.last_reconfig_time = <<t>>,
                          !.cooldown_until = <<t + COOLDOWN_SEC>>],
            calls \o <<Call("start_reconfiguration", started, connection_id),
                       Call("complete_reconfiguration", done, connection_id)>>)

\* the guard of _trigger_reconfiguration (lines 254-266)
MayReconfigure(conns, state, connection_id, t) ==
  /\ state.reconfig_count < MaxReconfigAttempts
  /\ ~is_in_cooldown(state, t)
  /\ connection_id \in DOMAIN conns

\* _trigger_reconfiguration at time t
trigger_reconfiguration(s, conns, state, connection_id, t, calls) ==
  IF ~MayReconfigure(conns, state, connection_id, t)
  THEN MonOut(s, conns, state, calls)
  ELSE IF start_reconfiguration(s, conns, connection_id, t).ok
       THEN FinishReconfiguration(start_reconfiguration(s, conns, connection_id, t),
                                  state, connection_id, t, calls)
       ELSE MonOut(start_reconfiguration(s, conns, connection_id, t).db,
                   start_reconfiguration(s, conns, connection_id, t).connections,
                   state,
                   calls \o <<Call("start_reconfiguration",
                                   start_reconfiguration(s, conns, connection_id, t),
                                   connection_id)>>)

\* a variant that reconfigures without marking the connection degraded first
HandleDegradationUnmarked(s, conns, state, connection_id, t) ==
  IF connection_id \in DOMAIN conns /\ conns[connection_id].status = "ACTIVE"
  THEN trigger_reconfiguration(s, conns, state, connection_id, t, <<>>)
  ELSE MonOut(s, conns, state, <<>>)

\* lines 229-242: an ACTIVE connection is marked degraded, whatever
\* mark_degraded returns, and reconfiguration is triggered
HandleDegradation(s, conns, state, connection_id, t) ==
  IF connection_id \in DOMAIN conns /\ conns[connection_id].status = "ACTIVE"
  THEN trigger_reconfiguration(mark_degraded(s, conns, connection_id).db,
                               mark_degraded(s, conns, connection_id).connections,
                               state, connection_id, t,
                               <<Call("mark_degraded",
                                      mark_degraded(s, conns, connection_id),
                                      connection_id)>>)
  ELSE MonOut(s, conns, state, <<>>)

\* a variant of the test below that does not ask whether the level changes
LevelEvaluated(state, t) ==
  /\ ~is_in_cooldown(state, t)
  /\ Len(state.samples) >= PERSISTENCY_SAMPLES

\* the persistency test this monitor applies to a state whose newest sample
\* has been added (lines 170-177 and 208-209): whether the level changes
LevelChanges(state, t) ==
  /\ ~is_in_cooldown(state, t)
  /\ Len(state.samples) >= PERSISTENCY_SAMPLES
  /\ new_level(state.samples) # state.degradation_level

\* _check_degradation at time t
check_degradation(s, conns, state, connection_id, t) ==
  IF ~LevelChanges(state, t) THEN MonOut(s, conns, state, <<>>)
  ELSE IF new_level(state.samples) \in {"DEGRADED", "CRITICAL"}
       THEN HandleDegradation(s, conns,
              [state EXCEPT !.degradation_level = new_level(state.samples)],
              connection_id, t)
       ELSE MonOut(s, conns,
              [state EXCEPT !.degradation_level = new_level(state.samples)], <<>>)

\* the state of a connection in the monitor, created on its first sample
StateOf(q, connection_id) ==
  IF connection_id \in DOMAIN q THEN q[connection_id] ELSE NewQoTState

\* _handle_telemetry, under the monitor's lock
handle_telemetry(s, conns, q, connection_id, sample, t) ==
  check_degradation(s, conns, add_sample(StateOf(q, connection_id), sample),
                    connection_id, t)

\* the test of the recovery sweep (_check_all_connections, lines 399-414)
Recovered(sample) ==
  /\ sample.osnr # <<>> => sample.osnr[1] >= OSNR_THRESHOLD
  /\ sample.pre_fec_ber # <<>> => sample.pre_fec_ber[1] <= BER_THRESHOLD

\* _check_all_connections at time t: the level of an ACTIVE connection whose
\* recent samples have all recovered goes back to NORMAL
check_all_connections(q, conns, t) ==
  [c \in DOMAIN q |->
     IF /\ c \in DOMAIN conns
        /\ conns[c].status = "ACTIVE"
        /\ q[c].degradation_level \in {"DEGRADED", "CRITICAL"}
        /\ ~is_in_cooldown(q[c], t)
        /\ Len(q[c].samples) >= PERSISTENCY_SAMPLES
        /\ \A i \in DOMAIN q[c].samples : Recovered(q[c].samples[i])
     THEN [q[c] EXCEPT !.degradation_level = "NORMAL"]
     ELSE q[c]]

\* ------------------------------------------------------------ the system

Ret(op, id, ok) == [op |-> op, id |-> id, ok |-> ok]

\* a ConnectionRequest for 150 Gbps with DP-16QAM (3 slots), the endpoint
\* interfaces both named or both left out
Request(id, src, dst, if) ==
  [connection_id |-> id, source_pop |-> src, destination_pop |-> dst,
   source_interface |-> if, destination_interface |-> if,
   bandwidth_gbps |-> 150, modulation |-> "DP-16QAM"]

\* the requests made: from A to C, two links away, with a caller-supplied
\* identifier or none and the interfaces named or not; from a POP that does not
\* exist; and from A to itself
Requests ==
  {Request(id, "A", "C", if) : id \in {"c1", None}, if \in {None, "eth0"}}
    \cup {Request(None, NoPop, "C", None), Request(None, "A", "A", None)}

\* the store as provisioned: every interface AVAILABLE, nothing occupied, no
\* connection record, and the slot set of every link seeded with every slot
\* (scripts/seed_slots.py), or that of L2 not seeded yet
InitialStores ==
  {[up |-> TRUE,
    slots |-> sl,
    occupied |-> [l \in LinkIds |-> EmptyDict],
    iface |-> [k \in IfaceKeys |-> [status |-> "AVAILABLE", current_connection |-> "null"]],
    records |-> EmptyDict] :
     sl \in {[l \in LinkIds |-> Slots], [l \in LinkIds |-> IF l = "L1" THEN Slots ELSE {}]}}

InitCommon ==
  /\ db \in InitialStores
  /\ connections = load_existing_connections(db)
  /\ ret = Ret("init", None, TRUE)
  /\ qot = EmptyDict
  /\ now = 0
  /\ Quiet

\* the code as it is: json is not a name of core/connection_manager.py
Init == InitCommon /\ json_bound = FALSE

\* the same code run with the name json bound
InitJson == InitCommon /\ json_bound = TRUE

\* uuid4: an identifier that names no connection yet
FreshIds ==
  LET unused == ConnIds \ (DOMAIN connections \cup DOMAIN db.records)
  IN IF unused = {} THEN {} ELSE {CHOOSE c \in unused : TRUE}

CreateConnection ==
  \E request \in Requests :
    \E cid \in (IF request.connection_id = None THEN FreshIds
                ELSE {request.connection_id}) :
      LET out == create_connection(db, connections, json_bound, request, cid) IN
      /\ db' = out.db
      /\ connections' = out.connections
      /\ ret' = Ret("create_connection", cid, out.ok)
      /\ UNCHANGED fixed

UpdateConnectionStatus ==
  \E cid \in ConnIds, status \in Statuses :
    LET out == update_connection_status(db, connections, cid, status) IN
    /\ db' = out.db
    /\ connections' = out.connections
    /\ ret' = Ret("update_connection_status", cid, out.ok)
    /\ UNCHANGED fixed

CompleteSetup ==
  \E cid \in ConnIds :
    LET out == complete_setup(db, connections, cid) IN
    /\ db' = out.db
    /\ connections' = out.connections
    /\ ret' = Ret("complete_setup", cid, out.ok)
    /\ UNCHANGED fixed

MarkDegraded ==
  \E cid \in ConnIds :
    LET out == mark_degraded(db, connections, cid) IN
    /\ db' = out.db
    /\ connections' = out.connections
    /\ ret' = Ret("mark_degraded", cid, out.ok)
    /\ UNCHANGED fixed

StartReconfiguration ==
  \E cid \in ConnIds :
    LET out == start_reconfiguration(db, connections, cid, now) IN
    /\ cid \in DOMAIN connections => connections[cid].reconfig_count < MaxReconfigCount
    /\ db' = out.db
    /\ connections' = out.connections
    /\ ret' = Ret("start_reconfiguration", cid, out.ok)
    /\ UNCHANGED fixed

CompleteReconfiguration ==
  \E cid \in ConnIds :
    LET out == complete_reconfiguration(db, connections, cid) IN
    /\ db' = out.db
    /\ connections' = out.connections
    /\ ret' = Ret("complete_reconfiguration", cid, out.ok)
    /\ UNCHANGED fixed

StartTeardown ==
  \E cid \in ConnIds :
    LET out == start_teardown(db, connections, cid) IN
    /\ db' = out.db
    /\ connections' = out.connections
    /\ ret' = Ret("start_teardown", cid, out.ok)
    /\ UNCHANGED fixed

CompleteTeardown ==
  \E cid \in ConnIds :
    LET out == complete_teardown(db, connections, cid) IN
    /\ db' = out.db
    /\ connections' = out.connections
    /\ ret' = Ret("complete_teardown", cid, out.ok)
    /\ UNCHANGED fixed

\* a process restart: a new ConnectionManager over the same store
Restart ==
  /\ connections' = load_existing_connections(db)
  /\ ret' = Ret("restart", None, TRUE)
  /\ qot' = EmptyDict
  /\ UNCHANGED <<db, json_bound, now, others>>

\* the Redis server becomes unreachable, or reachable again
StoreOutage ==
  /\ db' = [db EXCEPT !.up = ~@]
  /\ ret' = Ret("store", None, ~db.up)
  /\ UNCHANGED <<connections, fixed>>

\* the life cycle of connections: what the create, setup and delete request
\* handlers (api/routers.py) and a restart do
Next ==
  \/ CreateConnection
  \/ CompleteSetup
  \/ StartTeardown
  \/ CompleteTeardown
  \/ Restart

\* the code as it is
Spec == Init /\ [][Next]_vars

\* the code with json bound, where create_connection gets past line 248
SpecJson == InitJson /\ [][Next]_vars

\* every operation of the ConnectionManager, each callable in any state
NextFsm ==
  \/ CreateConnection
  \/ UpdateConnectionStatus
  \/ CompleteSetup
  \/ MarkDegraded
  \/ StartReconfiguration
  \/ CompleteReconfiguration
  \/ StartTeardown
  \/ CompleteTeardown

SpecFsm == Init /\ [][NextFsm]_vars

\* ------------------------------------------- the store driven directly
\* slot lists a caller may pass: up to two indices, repeated or not
SlotLists == UNION {[1 .. n -> Slots] : n \in 0 .. 2}

\* the link the calls are made on: L2, which starts seeded or not seeded
DrivenLinks == {"L2"}

AllocateSpectrumSlots ==
  \E link_id \in DrivenLinks, cid \in ConnIds, slots \in SlotLists :
    LET r == allocate_spectrum_slots(db, link_id, cid, slots) IN
    /\ db' = r.db
    /\ ret' = [op |-> "allocate_spectrum_slots", id |-> cid, ok |-> r.ok,
               link_id |-> link_id, slots |-> slots]
    /\ UNCHANGED <<connections, fixed>>

ReleaseSpectrumSlots ==
  \E link_id \in DrivenLinks, cid \in ConnIds :
    LET r == release_spectrum_slots(db, link_id, cid) IN
    /\ db' = r.db
    /\ ret' = Ret("release_spectrum_slots", cid, r.ok)
    /\ UNCHANGED <<connections, fixed>>

NextStore == AllocateSpectrumSlots \/ ReleaseSpectrumSlots

\* any sequence of allocate_spectrum_slots and release_spectrum_slots calls
SpecStore == Init /\ [][NextStore]_vars

\* ---------------------------------------- the path computer over the store
\* compute_complete_path for 1 or 2 slots' worth of bandwidth between any two
\* POPs; ret keeps the arguments and the result
ComputeCompletePath ==
  \E src \in POPs, dst \in POPs, bw \in {50, 100} :
    /\ ret' = [op |-> "compute_complete_path", id |-> None, ok |-> TRUE,
               source_pop |-> src, destination_pop |-> dst,
               required_slots |-> calculate_required_slots(bw, "DP-16QAM"),
               result |-> compute_complete_path(db, src, dst, bw, "DP-16QAM")]
    /\ UNCHANGED <<db, connections, fixed>>

\* stores in which any set of slots of each link is free, the other slots of
\* the link being held by one connection
PathStores ==
  {[up |-> TRUE,
    slots |-> sl,
    occupied |-> [l \in LinkIds |->
                    IF sl[l] = Slots THEN EmptyDict
                    ELSE [c \in {"c1"} |-> SortedSeq(Slots \ sl[l])]],
    iface |-> [k \in IfaceKeys |-> [status |-> "AVAILABLE", current_connection |-> "null"]],
    records |-> EmptyDict] : sl \in [LinkIds -> SUBSET Slots]}

InitPath ==
  /\ db \in PathStores
  /\ connections = EmptyDict
  /\ json_bound = FALSE
  /\ ret = Ret("init", None, TRUE)
  /\ qot = EmptyDict
  /\ now = 0
  /\ Quiet

NextPath == ComputeCompletePath

\* the path computer applied to every occupancy of the two links
SpecPath == InitPath /\ [][NextPath]_vars

\* ------------------------------------- the monitor over the manager
\* The clock advances in steps of TickSec up to MaxTime.
TickSec == 10
MaxTime == 60
\* Cap on the reconfigurations requested through the API, which the handler
\* does not bound.
MaxManualReconfig == 4

\* the samples agents report: healthy, OSNR degraded, OSNR critical, and OSNR
\* and BER both degraded
Samples ==
  {QoTSample(<<25>>, <<>>), QoTSample(<<17>>, <<>>),
   QoTSample(<<14>>, <<>>), QoTSample(<<17>>, <<50>>)}

\* the connection the agents report on
MonitoredIds == {"c1"}

\* the store and the index after c1 has been created from A to C on a seeded
\* store and its setup completed, with json bound
ActiveStore ==
  LET seeded == CHOOSE s \in InitialStores : \A l \in LinkIds : s.slots[l] = Slots
      created == create_connection(seeded, EmptyDict, TRUE,
                                   Request("c1", "A", "C", None), "c1")
  IN complete_setup(created.db, created.connections, "c1")

InitQot ==
  /\ db = ActiveStore.db
  /\ connections = ActiveStore.connections
  /\ json_bound = TRUE
  /\ ret = Ret("init", None, TRUE)
  /\ qot = EmptyDict
  /\ now = 0
  /\ Quiet

\* a telemetry sample handed to QoTMonitor._handle_telemetry
HandleTelemetry ==
  \E cid \in MonitoredIds, sample \in Samples :
    LET out == handle_telemetry(db, connections, qot, cid, sample, now) IN
    /\ db' = out.db
    /\ connections' = out.connections
    /\ qot' = DictPut(qot, cid, out.state)
    /\ ret' = [op |-> "handle_telemetry", id |-> cid, ok |-> TRUE,
               calls |-> out.calls]
    /\ UNCHANGED <<json_bound, now, others>>

\* one round of _monitoring_loop
CheckAllConnections ==
  /\ qot' = check_all_connections(qot, connections, now)
  /\ ret' = Ret("check_all_connections", None, TRUE)
  /\ UNCHANGED <<db, connections, json_bound, now, others>>

\* POST /connections/{id}/reconfigure: the handler calls start_reconfiguration
ReconfigureConnection ==
  \E cid \in MonitoredIds :
    LET out == start_reconfiguration(db, connections, cid, now) IN
    /\ cid \in DOMAIN connections
    /\ connections[cid].reconfig_count < MaxManualReconfig
    /\ db' = out.db
    /\ connections' = out.connections
    /\ ret' = Ret("reconfigure_connection", cid, out.ok)
    /\ UNCHANGED fixed

\* time passes
Tick ==
  /\ now + TickSec <= MaxTime
  /\ now' = now + TickSec
  /\ ret' = Ret("tick", None, TRUE)
  /\ UNCHANGED <<db, connections, json_bound, qot, others>>

NextQot ==
  \/ HandleTelemetry
  \/ CheckAllConnections
  \/ ReconfigureConnection
  \/ Tick

SpecQot == InitQot /\ [][NextQot]_vars

\* ------------------------------ manager calls of two threads, step by step
\* The API handlers run on the event loop thread, the telemetry callback on
\* the Kafka consumer thread; the manager takes no lock. Each call is cut at
\* its reads and writes of shared state.
Threads == {"api", "consumer"}

\* the calls each thread makes on connection c1
ThreadOps ==
  [api |-> {"start_teardown", "start_reconfiguration"},
   consumer |-> {"mark_degraded", "start_reconfiguration"}]

\* a thread outside any call; current_state and status are the locals of
\* _transition_state and update_connection_status
Idle ==
  [pc |-> "idle", op |-> None, id |-> None,
   current_state |-> None, status |-> None, ok |-> FALSE]

InitThreads ==
  /\ db = ActiveStore.db
  /\ connections = ActiveStore.connections
  /\ json_bound = TRUE
  /\ ret = Ret("init", None, TRUE)
  /\ qot = EmptyDict
  /\ now = 0
  /\ thr = [t \in Threads |-> Idle]
  /\ bus = << >>
  /\ agents = << >>

\* the thread moves to pc, the shared state untouched
Goto(t, pc) ==
  /\ thr' = [thr EXCEPT ![t].pc = pc]
  /\ UNCHANGED <<db, connections, ret>>

\* the call returns ok
Return(t, ok) ==
  /\ thr' = [thr EXCEPT ![t].pc = "done", ![t].ok = ok]
  /\ ret' = Ret(thr[t].op, thr[t].id, ok)

\* the thread enters one of its calls
ThreadCall(t) ==
  /\ thr[t].pc = "idle"
  /\ \E op \in ThreadOps[t] :
       thr' = [thr EXCEPT ![t].pc = "get", ![t].op = op, ![t].id = "c1"]
  /\ UNCHANGED <<db, connections, ret, json_bound, qot, now, bus, agents>>

\* connection = self.get_connection(connection_id); if not connection
ThreadGet(t) ==
  /\ thr[t].pc = "get"
  /\ IF thr[t].id \notin DOMAIN connections
     THEN Return(t, FALSE) /\ UNCHANGED <<db, connections>>
     ELSE Goto(t, IF thr[t].op = "mark_degraded" THEN "check" ELSE "read")
  /\ UNCHANGED <<json_bound, qot, now, bus, agents>>

\* mark_degraded: if connection.status == DEGRADED: return True
ThreadCheck(t) ==
  /\ thr[t].pc = "check"
  /\ IF connections[thr[t].id].status = "DEGRADED"
     THEN Return(t, TRUE) /\ UNCHANGED <<db, connections>>
     ELSE Goto(t, "read")
  /\ UNCHANGED <<json_bound, qot, now, bus, agents>>

\* _transition_state: current_state = connection.status and the table lookup
ThreadRead(t) ==
  /\ thr[t].pc = "read"
  /\ IF CanTransition(connections[thr[t].id].status, OpEvent[thr[t].op])
     THEN /\ thr' = [thr EXCEPT ![t].pc = "write",
                                ![t].current_state = connections[thr[t].id].status]
          /\ UNCHANGED <<db, connections, ret>>
     ELSE Return(t, FALSE) /\ UNCHANGED <<db, connections>>
  /\ UNCHANGED <<json_bound, qot, now, bus, agents>>

\* _transition_state: connection.status = new_state, new_state being the row
\* of the status read before; start_reconfiguration then sets its counters
ThreadWrite(t) ==
  /\ thr[t].pc = "write"
  /\ connections' =
       [connections EXCEPT
          ![thr[t].id].status = transition_state(thr[t].current_state, OpEvent[thr[t].op]),
          ![thr[t].id].last_reconfig_time =
             IF thr[t].op = "start_reconfiguration" THEN <<now>> ELSE @,
          ![thr[t].id].reconfig_count =
             IF thr[t].op = "start_reconfiguration" THEN @ + 1 ELSE @]
  /\ thr' = [thr EXCEPT ![t].pc = "arg"]
  /\ UNCHANGED <<db, ret, json_bound, qot, now, bus, agents>>

\* the argument connection.status of the call to update_connection_status
ThreadArg(t) ==
  /\ thr[t].pc = "arg"
  /\ thr' = [thr EXCEPT ![t].pc = "set", ![t].status = connections[thr[t].id].status]
  /\ UNCHANGED <<db, connections, ret, json_bound, qot, now, bus, agents>>

\* update_connection_status: connection.status = status
ThreadSet(t) ==
  /\ thr[t].pc = "set"
  /\ connections' = [connections EXCEPT ![thr[t].id].status = thr[t].status]
  /\ thr' = [thr EXCEPT ![t].pc = "store"]
  /\ UNCHANGED <<db, ret, json_bound, qot, now, bus, agents>>

\* update_connection_status: the store write, whose result is returned
ThreadStore(t) ==
  /\ thr[t].pc = "store"
  /\ db' = db_update_connection_status(db, thr[t].id, thr[t].status).db
  /\ Return(t, db_update_connection_status(db, thr[t].id, thr[t].status).ok)
  /\ UNCHANGED <<connections, json_bound, qot, now, bus, agents>>

NextThreads ==
  \E t \in Threads :
    \/ ThreadCall(t)
    \/ ThreadGet(t)
    \/ ThreadCheck(t)
    \/ ThreadRead(t)
    \/ ThreadWrite(t)
    \/ ThreadArg(t)
    \/ ThreadSet(t)
    \/ ThreadStore(t)

SpecThreads == InitThreads /\ [][NextThreads]_vars

\* ------------------------------ store calls of two clients, step by step
\* Each method of LinkDBClient is a sequence of Redis commands; every command
\* is atomic, the method is not. Two clients of the store (two threads, or
\* two controller processes) each make one allocation call, for the
\* connection that bears the client's name.
Clients == ConnIds

\* the interface and the link the two clients compete for
ContendedInterface == <<"A", "r1", "eth0">>
ContendedLink == "L1"

\* the slot lists the clients pass
ClientSlotLists == {<<0>>, <<0, 1>>, <<1, 2>>}

\* a client outside any call, with the locals of the two methods
Waiting ==
  [pc |-> "idle", op |-> None, slots |-> <<>>,
   current_status |-> None, current_conn |-> None,
   occupied_slots |-> EmptyDict, available_slots_set |-> {},
   i |-> 1, ok |-> FALSE]

InitClients ==
  /\ db \in {s \in InitialStores : \A l \in LinkIds : s.slots[l] = Slots}
  /\ connections = EmptyDict
  /\ json_bound = FALSE
  /\ ret = Ret("init", None, TRUE)
  /\ qot = EmptyDict
  /\ now = 0
  /\ thr = [c \in Clients |-> Waiting]
  /\ bus = << >>
  /\ agents = << >>

\* what a step of a client leaves alone besides the store
beside == <<connections, json_bound, qot, now, bus, agents>>

ClientReturn(c, ok) ==
  /\ thr' = [thr EXCEPT ![c].pc = "done", ![c].ok = ok]
  /\ ret' = Ret(thr[c].op, c, ok)

\* the client enters allocate_interface or allocate_spectrum_slots
ClientCall(c) ==
  /\ thr[c].pc = "idle"
  /\ \/ thr' = [thr EXCEPT ![c].pc = "hget_status", ![c].op = "allocate_interface"]
     \/ \E slots \in ClientSlotLists :
          thr' = [thr EXCEPT ![c].pc = "hget_occupied",
                             ![c].op = "allocate_spectrum_slots",
                             ![c].slots = slots]
  /\ UNCHANGED <<db, ret, beside>>

\* allocate_interface: current_status = hget(interface_key, 'status'), the
\* key existing
HgetStatus(c) ==
  /\ thr[c].pc = "hget_status"
  /\ thr' = [thr EXCEPT ![c].pc = "hget_conn",
                        ![c].current_status = db.iface[ContendedInterface].status]
  /\ UNCHANGED <<db, ret, beside>>

\* current_conn = hget(interface_key, 'current_connection'), and the test on
\* the two values read
HgetConn(c) ==
  /\ thr[c].pc = "hget_conn"
  /\ IF \/ thr[c].current_status # "AVAILABLE"
        \/ db.iface[ContendedInterface].current_connection # "null"
     THEN ClientReturn(c, FALSE)
     ELSE /\ thr' = [thr EXCEPT ![c].pc = "hset_interface",
                                ![c].current_conn =
                                   db.iface[ContendedInterface].current_connection]
          /\ UNCHANGED ret
  /\ UNCHANGED <<db, beside>>

\* hset(interface_key, mapping=update_data); return True
HsetInterface(c) ==
  /\ thr[c].pc = "hset_interface"
  /\ db' = [db EXCEPT !.iface[ContendedInterface] =
              [status |-> "OCCUPIED", current_connection |-> c]]
  /\ ClientReturn(c, TRUE)
  /\ UNCHANGED beside

\* allocate_spectrum_slots: occupied_slots = json.loads(hget(link_key,
\* 'occupied_slots')), the link existing
HgetOccupied(c) ==
  /\ thr[c].pc = "hget_occupied"
  /\ thr' = [thr EXCEPT ![c].pc = "smembers",
                        ![c].occupied_slots = db.occupied[ContendedLink]]
  /\ UNCHANGED <<db, ret, beside>>

\* available_slots_set = set(smembers(slot_key)), and the loop that looks
\* every listed slot up in it
Smembers(c) ==
  /\ thr[c].pc = "smembers"
  /\ IF \E i \in DOMAIN thr[c].slots : thr[c].slots[i] \notin db.slots[ContendedLink]
     THEN ClientReturn(c, FALSE)
     ELSE /\ thr' = [thr EXCEPT ![c].pc = "hset_occupied",
                                ![c].available_slots_set = db.slots[ContendedLink]]
          /\ UNCHANGED ret
  /\ UNCHANGED <<db, beside>>

\* occupied_slots[connection_id] = slots; hset(link_key, 'occupied_slots', ...)
HsetOccupied(c) ==
  /\ thr[c].pc = "hset_occupied"
  /\ db' = [db EXCEPT !.occupied[ContendedLink] =
              DictPut(thr[c].occupied_slots, c, thr[c].slots)]
  /\ thr' = [thr EXCEPT ![c].pc = "srem"]
  /\ UNCHANGED <<ret, beside>>

\* for slot in slots: srem(slot_key, slot), one command a step; return True
\* after the last
Srem(c) ==
  /\ thr[c].pc = "srem"
  /\ db' = [db EXCEPT !.slots[ContendedLink] = @ \ {thr[c].slots[thr[c].i]}]
  /\ IF thr[c].i = Len(thr[c].slots)
     THEN ClientReturn(c, TRUE)
     ELSE thr' = [thr EXCEPT ![c].i = @ + 1] /\ UNCHANGED ret
  /\ UNCHANGED beside

NextClients ==
  \E c \in Clients :
    \/ ClientCall(c)
    \/ HgetStatus(c)
    \/ HgetConn(c)
    \/ HsetInterface(c)
    \/ HgetOccupied(c)
    \/ Smembers(c)
    \/ HsetOccupied(c)
    \/ Srem(c)

SpecClients == InitClients /\ [][NextClients]_vars

\* --------------------------------- KafkaManager: commands to the agents
\* send_command hands a record to the KafkaProducer built by _init_clients
\* with acks="all", retries=3 and max_in_flight_requests_per_connection=1,
\* the target agent's id being the record's key. The producer keeps one queue
\* per partition, sends the head of a queue when fewer requests are in flight
\* than the limit, and puts a failed request back at the head of its queue
\* until its retries are used up. A key always maps to the same partition; the
\* model gives every key a partition of its own. A record is the number of the
\* command in production order.
AgentIds == {"a1", "a2"}

\* Cap on the commands produced.
MaxCommands == 3
\* Cap on the requests and acknowledgements lost.
MaxFaults == 4

retries == 3
max_in_flight_requests_per_connection == 1

InitBus ==
  /\ db \in {s \in InitialStores : \A l \in LinkIds : s.slots[l] = Slots}
  /\ connections = EmptyDict
  /\ json_bound = FALSE
  /\ ret = Ret("init", None, TRUE)
  /\ qot = EmptyDict
  /\ now = 0
  /\ thr = << >>
  /\ bus = [produced |-> <<>>,
            faults |-> 0,
            queue |-> [a \in AgentIds |-> <<>>],
            inflight |-> <<>>,
            log |-> [a \in AgentIds |-> <<>>],
            observed |-> [a \in AgentIds |-> <<>>]]
  /\ agents = << >>

\* what the bus leaves alone
offbus == <<db, connections, json_bound, qot, now, thr, agents>>

\* a sender that pipelines: one request more than the limit may be on the wire
CanSendRequestPipelined(b) == Len(b.inflight) < max_in_flight_requests_per_connection + 1

\* the sender may put one more request on the wire
CanSendRequest(b) == Len(b.inflight) < max_in_flight_requests_per_connection

\* a sequence without its i-th element
RemoveAt(seq, i) == SubSeq(seq, 1, i - 1) \o SubSeq(seq, i + 1, Len(seq))

\* the queue of a partition after a request has failed: the record goes back
\* to the head while it has retries left, and is dropped otherwise
Requeue(queue, r) ==
  IF r.attempts < retries
  THEN [queue EXCEPT ![r.key] = <<[r EXCEPT !.attempts = @ + 1]>> \o @]
  ELSE queue

\* send_command(command, target_agent): _send calls producer.send, which
\* appends the record to the queue of the key's partition; fut.get returns on
\* the acknowledgement or gives up after 10 s, the record staying with the
\* producer
SendCommand ==
  \E target_agent \in AgentIds :
    /\ Len(bus.produced) < MaxCommands
    /\ bus' = [bus EXCEPT
                 !.produced = Append(@, target_agent),
                 !.queue[target_agent] =
                    Append(@, [key |-> target_agent,
                               n |-> Len(bus.produced) + 1,
                               attempts |-> 0])]
    /\ ret' = Ret("send_command", target_agent, TRUE)
    /\ UNCHANGED offbus

\* the sender thread puts the head of a partition's queue on the wire
Transmit ==
  \E a \in AgentIds :
    /\ CanSendRequest(bus)
    /\ bus.queue[a] # <<>>
    /\ bus' = [bus EXCEPT !.queue[a] = Tail(@),
                          !.inflight = Append(@, Head(bus.queue[a]))]
    /\ ret' = Ret("transmit", a, TRUE)
    /\ UNCHANGED offbus

\* the broker appends the record to the partition and the acknowledgement
\* arrives
Acknowledged ==
  \E i \in DOMAIN bus.inflight :
    /\ bus' = [bus EXCEPT !.inflight = RemoveAt(@, i),
                          !.log[bus.inflight[i].key] = Append(@, bus.inflight[i].n)]
    /\ ret' = Ret("acknowledged", bus.inflight[i].key, TRUE)
    /\ UNCHANGED offbus

\* the broker appends the record and the acknowledgement is lost: the
\* producer retries
AckLost ==
  \E i \in DOMAIN bus.inflight :
    /\ bus.faults < MaxFaults
    /\ bus' = [bus EXCEPT !.inflight = RemoveAt(@, i),
                          !.faults = @ + 1,
                          !.log[bus.inflight[i].key] = Append(@, bus.inflight[i].n),
                          !.queue = Requeue(@, bus.inflight[i])]
    /\ ret' = Ret("ack_lost", bus.inflight[i].key, FALSE)
    /\ UNCHANGED offbus

\* the request does not reach the broker: the producer retries
RequestLost ==
  \E i \in DOMAIN bus.inflight :
    /\ bus.faults < MaxFaults
    /\ bus' = [bus EXCEPT !.inflight = RemoveAt(@, i),
                          !.faults = @ + 1,
                          !.queue = Requeue(@, bus.inflight[i])]
    /\ ret' = Ret("request_lost", bus.inflight[i].key, FALSE)
    /\ UNCHANGED offbus

\* the agent reads the next record of its partition
Consume ==
  \E a \in AgentIds :
    /\ Len(bus.observed[a]) < Len(bus.log[a])
    /\ bus' = [bus EXCEPT !.observed[a] = Append(@, bus.log[a][Len(bus.observed[a]) + 1])]
    /\ ret' = Ret("consume", a, TRUE)
    /\ UNCHANGED offbus

NextBus ==
  \/ SendCommand
  \/ Transmit
  \/ Acknowledged
  \/ AckLost
  \/ RequestLost
  \/ Consume

SpecBus == InitBus /\ [][NextBus]_vars

\* ------------------------------------------------------ AgentDispatcher
\* no heartbeat in the last 60 seconds: offline
OnlineWindowSec == 60

\* the router each agent runs on, as its heartbeats report it
AgentHome == [a1 |-> <<"A", "r1">>, a2 |-> <<"C", "r3">>]

\* the endpoints commands are dispatched to
Endpoints == {<<"A", "r1">>, <<"C", "r3">>}

InitDispatch ==
  /\ db \in {s \in InitialStores : \A l \in LinkIds : s.slots[l] = Slots}
  /\ connections = EmptyDict
  /\ json_bound = FALSE
  /\ ret = Ret("init", None, TRUE)
  /\ qot = EmptyDict
  /\ now = 0
  /\ thr = << >>
  /\ bus = << >>
  /\ agents = EmptyDict

\* _handle_heartbeat at time t: a new agent is registered with the POP and
\* router of the payload, a known one gets its last_heartbeat renewed
handle_heartbeat(ag, agent_id, t) ==
  IF agent_id \notin DOMAIN ag
  THEN DictPut(ag, agent_id,
               [agent_id |-> agent_id,
                pop_id |-> AgentHome[agent_id][1],
                router_id |-> AgentHome[agent_id][2],
                last_heartbeat |-> <<t>>])
  ELSE [ag EXCEPT ![agent_id].last_heartbeat = <<t>>]

\* a variant of the test below that still counts a heartbeat 60 seconds old
is_online_inclusive(agent, t) ==
  agent.last_heartbeat # <<>> /\ t - agent.last_heartbeat[1] <= OnlineWindowSec

\* AgentInfo.is_online at time t
is_online(agent, t) ==
  agent.last_heartbeat # <<>> /\ t - agent.last_heartbeat[1] < OnlineWindowSec

\* get_agent: the agents registered for (pop_id, router_id); at most one here
get_agent(ag, pop_id, router_id) ==
  {a \in DOMAIN ag : ag[a].pop_id = pop_id /\ ag[a].router_id = router_id}

\* the branch shared by dispatch_setup_command and dispatch_reconfig_command:
\* the commands sent for one endpoint at time t, each the key it is sent
\* under; none when the agent is unknown or offline
CommandsFor(ag, endpoint, t) ==
  IF \E a \in get_agent(ag, endpoint[1], endpoint[2]) : is_online(ag[a], t)
  THEN <<CHOOSE a \in get_agent(ag, endpoint[1], endpoint[2]) : is_online(ag[a], t)>>
  ELSE <<>>

\* a heartbeat of an agent is routed to the dispatcher
Heartbeat ==
  \E a \in DOMAIN AgentHome :
    /\ agents' = handle_heartbeat(agents, a, now)
    /\ ret' = Ret("handle_heartbeat", a, TRUE)
    /\ UNCHANGED <<db, connections, json_bound, qot, now, thr, bus>>

\* dispatch_reconfig_command for one endpoint; bus is the list of the keys
\* commands have been sent under
DispatchReconfigCommand ==
  \E endpoint \in Endpoints :
    /\ Len(bus) < MaxCommands
    /\ bus' = bus \o CommandsFor(agents, endpoint, now)
    /\ ret' = [op |-> "dispatch_reconfig_command", id |-> None,
               ok |-> CommandsFor(agents, endpoint, now) # <<>>,
               endpoints |-> <<endpoint>>]
    /\ UNCHANGED <<db, connections, json_bound, qot, now, thr, agents>>

\* dispatch_setup_command: the source endpoint, then the destination
DispatchSetupCommand ==
  \E source \in Endpoints, destination \in Endpoints :
    /\ Len(bus) < MaxCommands
    /\ bus' = bus \o CommandsFor(agents, source, now)
                  \o CommandsFor(agents, destination, now)
    /\ ret' = [op |-> "dispatch_setup_command", id |-> None,
               ok |-> /\ CommandsFor(agents, source, now) # <<>>
                      /\ CommandsFor(agents, destination, now) # <<>>,
               endpoints |-> <<source, destination>>]
    /\ UNCHANGED <<db, connections, json_bound, qot, now, thr, agents>>

NextDispatch ==
  \/ Heartbeat
  \/ DispatchReconfigCommand
  \/ DispatchSetupCommand
  \/ Tick

SpecDispatch == InitDispatch /\ [][NextDispatch]_vars

\* ------------------------------------- the locks of the callback threads
\* QoTMonitor._lock and AgentDispatcher._lock are reentrant locks taken by
\* "with self._lock" around the whole body of a callback. The Kafka consumer
\* thread runs the telemetry and the heartbeat callbacks, the monitor thread
\* the recovery sweep. Each callback is cut where the lock is taken and where
\* it is given back.
LockThreads == {"consumer", "sweeper"}

\* a thread outside any callback, holding no lock
Unlocked == [pc |-> "idle", held |-> {}]

\* the samples handed to the callback here: healthy, and OSNR degraded
LockSamples == {QoTSample(<<25>>, <<>>), QoTSample(<<17>>, <<>>)}

InitLocks ==
  /\ db = ActiveStore.db
  /\ connections = ActiveStore.connections
  /\ json_bound = TRUE
  /\ ret = Ret("init", None, TRUE)
  /\ qot = EmptyDict
  /\ now = 0
  /\ thr = [t \in LockThreads |-> Unlocked]
  /\ bus = << >>
  /\ agents = EmptyDict

\* with self._lock: the thread t, outside any callback, takes the lock, which
\* no other thread holds, and goes on to pc
EnterLock(t, lock, pc) ==
  /\ thr[t].pc = "idle"
  /\ \A u \in LockThreads \ {t} : lock \notin thr[u].held
  /\ thr' = [thr EXCEPT ![t] = [pc |-> pc, held |-> {lock}]]
  /\ UNCHANGED <<db, connections, json_bound, ret, qot, now, bus, agents>>

\* _handle_telemetry, lines 151-161, the manager calls of _check_degradation
\* and _trigger_reconfiguration among them
TelemetryLocked ==
  \E cid \in MonitoredIds, sample \in LockSamples :
    /\ thr["consumer"].pc = "telemetry"
    /\ db' = handle_telemetry(db, connections, qot, cid, sample, now).db
    /\ connections' = handle_telemetry(db, connections, qot, cid, sample, now).connections
    /\ qot' = DictPut(qot, cid, handle_telemetry(db, connections, qot, cid, sample, now).state)
    /\ ret' = [op |-> "handle_telemetry", id |-> cid, ok |-> TRUE,
               calls |-> handle_telemetry(db, connections, qot, cid, sample, now).calls]
    /\ thr' = [thr EXCEPT !["consumer"].pc = "release"]
    /\ UNCHANGED <<json_bound, now, bus, agents>>

\* _handle_heartbeat, lines 83-103
HeartbeatLocked ==
  /\ thr["consumer"].pc = "heartbeat"
  /\ agents' = handle_heartbeat(agents, "a1", now)
  /\ ret' = [op |-> "handle_heartbeat", id |-> "a1", ok |-> TRUE, calls |-> <<>>]
  /\ thr' = [thr EXCEPT !["consumer"].pc = "release"]
  /\ UNCHANGED <<db, connections, json_bound, qot, now, bus>>

\* _check_all_connections, lines 393-417: conn_manager.list_connections is
\* called, then the levels are reset
SweepLocked ==
  /\ thr["sweeper"].pc = "sweep"
  /\ qot' = check_all_connections(qot, connections, now)
  /\ ret' = [op |-> "check_all_connections", id |-> None, ok |-> TRUE,
             calls |-> <<[op |-> "list_connections", ok |-> TRUE, status |-> None]>>]
  /\ thr' = [thr EXCEPT !["sweeper"].pc = "release"]
  /\ UNCHANGED <<db, connections, json_bound, now, bus, agents>>

\* the end of the with block: the lock is given back
LeaveLock ==
  \E t \in LockThreads :
    /\ thr[t].pc = "release"
    /\ thr' = [thr EXCEPT ![t] = Unlocked]
    /\ UNCHANGED <<db, connections, json_bound, ret, qot, now, bus, agents>>

\* the with statements of _handle_telemetry (line 150), _handle_heartbeat
\* (line 82) and _check_all_connections (line 392), each followed by its body
NextLocks ==
  \/ EnterLock("consumer", "monitor", "telemetry")
  \/ TelemetryLocked
  \/ EnterLock("consumer", "registry", "heartbeat")
  \/ HeartbeatLocked
  \/ EnterLock("sweeper", "monitor", "sweep")
  \/ SweepLocked
  \/ LeaveLock
  \/ Tick

SpecLocks == InitLocks /\ [][NextLocks]_vars

\* ------------------------------------------- the create-and-activate run
\* The link from A to B seeded with ScenarioSlots slots (the code seeds 320,
\* scripts/seed_slots.py), enough for the 8 slots that 400 Gbps take.
ScenarioSlots == 10

ScenarioStore ==
  [up |-> TRUE,
   slots |-> [l \in LinkIds |-> 0 .. (ScenarioSlots - 1)],
   occupied |-> [l \in LinkIds |-> EmptyDict],
   iface |-> [k \in IfaceKeys |-> [status |-> "AVAILABLE", current_connection |-> "null"]],
   records |-> EmptyDict]

\* requests from A to B, one link away, for 400 or 200 Gbps with DP-16QAM
ScenarioRequests ==
  {[Request(id, "A", "B", None) EXCEPT !.bandwidth_gbps = bw] :
     id \in {"c1", None}, bw \in {200, 400}}

\* the code as it is and the code with the name json bound
InitScenario ==
  /\ db = ScenarioStore
  /\ connections = EmptyDict
  /\ json_bound \in BOOLEAN
  /\ ret = Ret("init", None, TRUE)
  /\ qot = EmptyDict
  /\ now = 0
  /\ Quiet

\* create_connection; ret keeps the bandwidth asked for
CreateScenario ==
  \E request \in ScenarioRequests :
    \E cid \in (IF request.connection_id = None THEN FreshIds
                ELSE {request.connection_id}) :
      /\ db' = create_connection(db, connections, json_bound, request, cid).db
      /\ connections' =
           create_connection(db, connections, json_bound, request, cid).connections
      /\ ret' = [op |-> "create_connection", id |-> cid,
                 ok |-> create_connection(db, connections, json_bound, request, cid).ok,
                 bandwidth_gbps |-> request.bandwidth_gbps]
      /\ UNCHANGED fixed

NextScenario ==
  \/ CreateScenario
  \/ CompleteSetup
  \/ StartTeardown
  \/ CompleteTeardown

SpecScenario == InitScenario /\ [][NextScenario]_vars

\* --------------------------------------- requests of more than one size
\* requests from A to B or to C for 100 or 150 Gbps with DP-16QAM (2 or 3
\* slots), with a caller-supplied identifier or none
SizedRequests ==
  {[Request(id, "A", dst, None) EXCEPT !.bandwidth_gbps = bw] :
     id \in {"c1", None}, dst \in {"B", "C"}, bw \in {100, 150}}

\* the code as it is and the code with the name json bound
InitEither == InitCommon /\ json_bound \in BOOLEAN

\* create_connection; ret keeps the request
CreateSized ==
  \E request \in SizedRequests :
    \E cid \in (IF request.connection_id = None THEN FreshIds
                ELSE {request.connection_id}) :
      /\ db' = create_connection(db, connections, json_bound, request, cid).db
      /\ connections' =
           create_connection(db, connections, json_bound, request, cid).connections
      /\ ret' = [op |-> "create_connection", id |-> cid,
                 ok |-> create_connection(db, connections, json_bound, request, cid).ok,
                 request |-> request]
      /\ UNCHANGED fixed

NextSized ==
  \/ CreateSized
  \/ CompleteSetup
  \/ StartTeardown
  \/ CompleteTeardown

SpecSized == InitEither /\ [][NextSized]_vars

\* ------------------------------------------------- the delete request
\* DELETE /connections/{id} (api/routers.py 324-360): 404 for an unknown
\* connection; start_teardown, and when it returns True complete_teardown,
\* whose result is not looked at; otherwise 500. ok is FALSE for 404 and 500.
delete_connection(s, conns, connection_id) ==
  IF connection_id \notin DOMAIN conns THEN Out(s, conns, FALSE)
  ELSE IF start_teardown(s, conns, connection_id).ok
       THEN Out(complete_teardown(start_teardown(s, conns, connection_id).db,
                                  start_teardown(s, conns, connection_id).connections,
                                  connection_id).db,
                complete_teardown(start_teardown(s, conns, connection_id).db,
                                  start_teardown(s, conns, connection_id).connections,
                                  connection_id).connections,
                TRUE)
       ELSE start_teardown(s, conns, connection_id)

DeleteConnection(cid) ==
  /\ db' = delete_connection(db, connections, cid).db
  /\ connections' = delete_connection(db, connections, cid).connections
  /\ ret' = Ret("delete_connection", cid, delete_connection(db, connections, cid).ok)
  /\ UNCHANGED fixed

\* the create, setup and delete request handlers, the manager's
\* start_teardown called on its own (scripts/verify_phase2.py 290), a restart
NextDelete ==
  \/ CreateConnection
  \/ CompleteSetup
  \/ StartTeardown
  \/ \E cid \in ConnIds : DeleteConnection(cid)
  \/ Restart

\* delete requests keep being made for every identifier
SpecDelete ==
  /\ InitEither
  /\ [][NextDelete]_vars
  /\ \A cid \in ConnIds : WF_vars(DeleteConnection(cid))

\* ------------------------------------ the monitor, kept running
\* The telemetry consumer and the monitoring loop are threads that run for as
\* long as the controller does (qot_monitor.py 95-118, 377-390), and time
\* passes; reconfigure requests come only when an operator sends one.
\* The controller is started at the beginning or at the end of the stretch
\* of time that is followed.
InitQotAnytime ==
  /\ db = ActiveStore.db
  /\ connections = ActiveStore.connections
  /\ json_bound = TRUE
  /\ ret = Ret("init", None, TRUE)
  /\ qot = EmptyDict
  /\ now \in {0, MaxTime}
  /\ Quiet

SpecQotFair ==
  /\ InitQotAnytime
  /\ [][NextQot]_vars
  /\ WF_vars(HandleTelemetry)
  /\ WF_vars(CheckAllConnections)
  /\ WF_vars(Tick)

\* ------------------------------------- the manager over a failing store
\* the store and the index after c1 has been created from A to C on a seeded
\* store, with json bound
CreatedStore ==
  create_connection(CHOOSE s \in InitialStores : \A l \in LinkIds : s.slots[l] = Slots,
                    EmptyDict, TRUE, Request("c1", "A", "C", None), "c1")

InitOutage ==
  /\ db = CreatedStore.db
  /\ connections = CreatedStore.connections
  /\ json_bound = TRUE
  /\ ret = Ret("init", None, TRUE)
  /\ qot = EmptyDict
  /\ now = 0
  /\ Quiet

\* the operations that write a new status, with the Redis server going away
\* and coming back between calls
NextOutage ==
  \/ CompleteSetup
  \/ MarkDegraded
  \/ StartReconfiguration
  \/ CompleteReconfiguration
  \/ StartTeardown
  \/ StoreOutage

SpecOutage == InitOutage /\ [][NextOutage]_vars

\* ----------------------------- the monitor when applying can fail
\* _apply_reconfiguration (qot_monitor.py 345-375) returns True, or False from
\* its except branch. Lines 294-296, after start_reconfiguration returned
\* True and _apply_reconfiguration False: mark_degraded(connection_id, None)
\* is called and the counters of the monitor are left alone.
FailReconfiguration(started, state, connection_id, calls) ==
  MonOut(mark_degraded(started.db, started.connections, connection_id).db,
         mark_degraded(started.db, started.connections, connection_id).connections,
         state,
         calls \o <<Call("start_reconfiguration", started, connection_id),
                    Call("mark_degraded",
                         mark_degraded(started.db, started.connections, connection_id),
                         connection_id)>>)

\* _trigger_reconfiguration at time t, success being what
\* _apply_reconfiguration returns if it is reached
trigger_reconfiguration_applying(s, conns, state, connection_id, t, calls, success) ==
  IF \/ success
     \/ ~MayReconfigure(conns, state, connection_id, t)
     \/ ~start_reconfiguration(s, conns, connection_id, t).ok
  THEN trigger_reconfiguration(s, conns, state, connection_id, t, calls)
  ELSE FailReconfiguration(start_reconfiguration(s, conns, connection_id, t),
                           state, connection_id, calls)

\* whether _handle_telemetry gets as far as _trigger_reconfiguration
\* (lines 208-242)
Triggers(conns, state, connection_id, t) ==
  /\ LevelChanges(state, t)
  /\ new_level(state.samples) \in {"DEGRADED", "CRITICAL"}
  /\ connection_id \in DOMAIN conns
  /\ conns[connection_id].status = "ACTIVE"

\* _handle_telemetry at time t, success being what _apply_reconfiguration
\* returns if it is reached
handle_telemetry_applying(s, conns, q, connection_id, sample, t, success) ==
  IF \/ success
     \/ ~Triggers(conns, add_sample(StateOf(q, connection_id), sample), connection_id, t)
  THEN handle_telemetry(s, conns, q, connection_id, sample, t)
  ELSE trigger_reconfiguration_applying(
         mark_degraded(s, conns, connection_id).db,
         mark_degraded(s, conns, connection_id).connections,
         [add_sample(StateOf(q, connection_id), sample)
            EXCEPT !.degradation_level =
                     new_level(add_sample(StateOf(q, connection_id), sample).samples)],
         connection_id, t,
         <<Call("mark_degraded", mark_degraded(s, conns, connection_id), connection_id)>>,
         FALSE)

\* a telemetry sample handed to QoTMonitor._handle_telemetry
HandleTelemetryApplying ==
  \E cid \in MonitoredIds, sample \in Samples, success \in BOOLEAN :
    /\ db' = handle_telemetry_applying(db, connections, qot, cid, sample, now, success).db
    /\ connections' =
         handle_telemetry_applying(db, connections, qot, cid, sample, now, success).connections
    /\ qot' = DictPut(qot, cid,
         handle_telemetry_applying(db, connections, qot, cid, sample, now, success).state)
    /\ ret' = [op |-> "handle_telemetry", id |-> cid, ok |-> TRUE,
               calls |-> handle_telemetry_applying(db, connections, qot, cid, sample,
                                                   now, success).calls]
    /\ UNCHANGED <<json_bound, now, others>>

NextApply ==
  \/ HandleTelemetryApplying
  \/ CheckAllConnections
  \/ Tick

SpecApply == InitQot /\ [][NextApply]_vars

\* ------------------------------------- the monitoring stream's router
\* the type tags of the records agents send, in several spellings, and a
\* record without a type
TypeTags ==
  {"agentHealth", "heartbeat", "HEARTBEAT", "telemetry", "qotTelemetry",
   "Telemetry", "commandAck", "commandack", "monitoring", "alarm", None}

\* str.lower on the tags above
Lower ==
  [tag \in TypeTags |->
     CASE tag = "agentHealth" -> "agenthealth"
       [] tag = "HEARTBEAT" -> "heartbeat"
       [] tag = "qotTelemetry" -> "qottelemetry"
       [] tag = "Telemetry" -> "telemetry"
       [] tag = "commandAck" -> "commandack"
       [] OTHER -> tag]

\* the three tuples _route_monitoring_message tests mtype against
\* (kafka_manager.py lines 190, 205, 215)
HeartbeatTags == {"agentHealth", "agentHeartbeat", "health", "heartbeat"}
TelemetryTags == {"telemetry", "agentTelemetry", "monitoring", "qotTelemetry"}
AckTags == {"commandAck", "ack", "command_ack"}

\* the records consumed: a type tag, the agent that sent it, and for
\* telemetry the connection and the sample
MonitoringMessages ==
  [type : TypeTags, agent_id : DOMAIN AgentHome, connection_id : MonitoredIds,
   sample : LockSamples]

\* what routing a record leaves: the registry, the monitor's states and the
\* callback lists whose callbacks were called
Routed(ag, q, lists) == [agents |-> ag, qot |-> q, callbacks |-> lists]

\* _route_monitoring_message at time t. The heartbeat callbacks are called as
\* cb(agent_id, norm, envelope), which is the signature of
\* AgentDispatcher._handle_heartbeat. The telemetry callbacks are called as
\* cb(agent_id, msg); the one registered is QoTMonitor._handle_telemetry
\* (qot_monitor.py 127), which takes one argument, so the call raises
\* TypeError before its body runs and the except clause of line 210 logs it.
\* The ack callback only logs.
route_monitoring_message(ag, q, msg, t) ==
  IF msg.type = None THEN Routed(ag, q, <<>>)
  ELSE IF msg.type \in HeartbeatTags
       THEN Routed(handle_heartbeat(ag, msg.agent_id, t), q, <<"heartbeat">>)
  ELSE IF msg.type \in TelemetryTags THEN Routed(ag, q, <<"telemetry">>)
  ELSE IF msg.type \in AckTags THEN Routed(ag, q, <<"ack">>)
  ELSE Routed(ag, q, <<>>)

\* one record taken by _consume_loop
RouteMonitoringMessage ==
  \E msg \in MonitoringMessages :
    /\ agents' = route_monitoring_message(agents, qot, msg, now).agents
    /\ qot' = route_monitoring_message(agents, qot, msg, now).qot
    /\ ret' = [op |-> "route_monitoring_message", id |-> msg.connection_id,
               ok |-> TRUE, msg |-> msg,
               callbacks |-> route_monitoring_message(agents, qot, msg, now).callbacks]
    /\ UNCHANGED <<db, connections, json_bound, now, thr, bus>>

NextRoute ==
  \/ RouteMonitoringMessage
  \/ CheckAllConnections
  \/ Tick

SpecRoute == InitQot /\ [][NextRoute]_vars

\* ------------------------------------------ the power adjustment
TX_STEP_DB == 1

\* settings.ADJUST_MODE
AdjustModes == {"both", "source", "destination"}

\* the latest samples an adjustment is computed from: OSNR and BER each
\* absent, within range, at a threshold or out of range
AdjustSamples ==
  {QoTSample(osnr, ber) :
     osnr \in {<<>>, <<14>>, <<17>>, <<18>>, <<20>>, <<21>>, <<22>>, <<25>>},
     ber \in {<<>>, <<5>>, <<10>>, <<11>>, <<50>>, <<500>>}}

Adjustment(source, destination) ==
  [source_tx_adjustment |-> source, destination_tx_adjustment |-> destination]

\* lines 317-334: the BER is looked at only when the sample has no OSNR
BothEnds(sample) ==
  IF sample.osnr # <<>>
  THEN IF sample.osnr[1] < OSNR_THRESHOLD THEN Adjustment(TX_STEP_DB, TX_STEP_DB)
       ELSE IF sample.osnr[1] > OSNR_THRESHOLD + 3
            THEN Adjustment(-TX_STEP_DB, -TX_STEP_DB)
       ELSE Adjustment(0, 0)
  ELSE IF sample.pre_fec_ber # <<>> /\ sample.pre_fec_ber[1] > BER_THRESHOLD
       THEN Adjustment(TX_STEP_DB, TX_STEP_DB)
  ELSE Adjustment(0, 0)

\* _calculate_power_adjustment under a given ADJUST_MODE
calculate_power_adjustment(sample, adjust_mode) ==
  IF adjust_mode = "source"
  THEN Adjustment(BothEnds(sample).source_tx_adjustment, 0)
  ELSE IF adjust_mode = "destination"
       THEN Adjustment(0, BothEnds(sample).destination_tx_adjustment)
  ELSE BothEnds(sample)

CalculatePowerAdjustment ==
  \E sample \in AdjustSamples, adjust_mode \in AdjustModes :
    /\ ret' = [op |-> "calculate_power_adjustment", id |-> None, ok |-> TRUE,
               sample |-> sample, adjust_mode |-> adjust_mode,
               adjustment |-> calculate_power_adjustment(sample, adjust_mode)]
    /\ UNCHANGED <<db, connections, fixed>>

NextAdjust == CalculatePowerAdjustment

SpecAdjust == InitQot /\ [][NextAdjust]_vars

\* ------------------------------------------------ the agent reaper
\* an agent not heard from for more than 5 minutes is stale (line 123)
StaleAfterSec == 300

\* the times, in seconds, at which something happens: around the 60 seconds
\* of is_online and around the 5 minutes of the reaper
ClockValues == {0, 1, 60, 61, 300, 301}

get_online_agents(ag, t) == {a \in DOMAIN ag : is_online(ag[a], t)}

\* the agents one pass of _periodic_cleanup deletes at time t (lines 119-124)
stale_agents(ag, t) ==
  {a \in DOMAIN ag :
     /\ ag[a].last_heartbeat # <<>>
     /\ t - ag[a].last_heartbeat[1] > StaleAfterSec}

GetOnlineAgents ==
  /\ ret' = [op |-> "get_online_agents", id |-> None, ok |-> TRUE,
             online |-> get_online_agents(agents, now)]
  /\ UNCHANGED <<db, connections, json_bound, qot, now, thr, bus, agents>>

\* one pass of the loop of _periodic_cleanup
PeriodicCleanup ==
  /\ agents' = [a \in DOMAIN agents \ stale_agents(agents, now) |-> agents[a]]
  /\ ret' = [op |-> "periodic_cleanup", id |-> None, ok |-> TRUE,
             removed |-> stale_agents(agents, now)]
  /\ UNCHANGED <<db, connections, json_bound, qot, now, thr, bus>>

\* time passes, to one of the times above
AdvanceClock ==
  \E t \in ClockValues :
    /\ t > now
    /\ now' = t
    /\ ret' = Ret("tick", None, TRUE)
    /\ UNCHANGED <<db, connections, json_bound, qot, others>>

NextReaper ==
  \/ Heartbeat
  \/ GetOnlineAgents
  \/ PeriodicCleanup
  \/ AdvanceClock

SpecReaper == InitDispatch /\ [][NextReaper]_vars

\* ------------------------------------------------------------ properties

\* the free slots of a link as the store reports them
FreeSlots(s, link_id) == SeqSet(get_available_slots(s, link_id))

\* C1: FSM soundness. In every step of every sequence of manager operations
\* (update_connection_status among them) each connection's status is one of
\* the eight statuses, a change of a connection's status is a row of the
\* transition table, and an operation whose event the table does not list for
\* the current status returns False and leaves the status as it was.
C1_FsmSoundness ==
  [][/\ \A c \in DOMAIN connections' : connections'[c].status \in Statuses
     /\ \A c \in DOMAIN connections \cap DOMAIN connections' :
          connections'[c].status # connections[c].status =>
            \E e \in Events :
              /\ CanTransition(connections[c].status, e)
              /\ STATE_TRANSITIONS[connections[c].status][e] = connections'[c].status
     /\ (/\ ret'.op \in DOMAIN OpEvent
         /\ ret'.id \in DOMAIN connections
         /\ ~CanTransition(connections[ret'.id].status, OpEvent[ret'.op]))
        => /\ ~ret'.ok
           /\ ret'.id \in DOMAIN connections'
           /\ connections'[ret'.id].status = connections[ret'.id].status]_vars

\* C2: slot conservation. After any sequence of allocate_spectrum_slots and
\* release_spectrum_slots calls, on every link the free slots and the slots
\* each connection holds are pairwise disjoint and together are all the slots
\* of the link: none is lost, none is held twice.
C2_SlotConservation ==
  \A l \in LinkIds :
    /\ \A c \in DOMAIN db.occupied[l] :
         SeqSet(db.occupied[l][c]) \cap FreeSlots(db, l) = {}
    /\ \A c, d \in DOMAIN db.occupied[l] :
         c # d => SeqSet(db.occupied[l][c]) \cap SeqSet(db.occupied[l][d]) = {}
    /\ FreeSlots(db, l) \cup UNION {SeqSet(db.occupied[l][c]) : c \in DOMAIN db.occupied[l]}
         = Slots

\* the statuses in which a connection holds its spectrum
Holding == {"SETUP_IN_PROGRESS", "ACTIVE", "DEGRADED", "RECONFIGURING"}

C4_FailedCreateLeavesNothing ==
  [][(ret'.op = "create_connection" /\ ~ret'.ok)
       => (db' = db /\ connections' = connections)]_vars

CommonRuns(s, path_links, n) ==
  {k \in Slots : \A j \in 0 .. (n - 1) : \A i \in DOMAIN path_links :
     (k + j) \in FreeSlots(s, path_links[i])}

\* C6: slot continuity. A path compute_complete_path returns carries the same
\* slot indices on every segment, and a request for which no run of free slots
\* is common to the links of the path is rejected.
C6_SlotContinuity ==
  ret.op = "compute_complete_path" =>
    LET p == compute_shortest_path(ret.source_pop, ret.destination_pop) IN
    /\ ret.result.error = None =>
         \A j, k \in DOMAIN ret.result.path :
           ret.result.path[j].allocated_slots = ret.result.path[k].allocated_slots
    /\ (p # <<>> /\ CommonRuns(db, p, ret.required_slots) = {})
         => ret.result.error # None

\* C7: first fit. Whenever a run of the requested number of contiguous slots
\* is free on every link of the path, every segment of the returned path
\* carries the lowest-indexed such run.
C7_FirstFit ==
  ret.op = "compute_complete_path" =>
    LET p == compute_shortest_path(ret.source_pop, ret.destination_pop)
        runs == CommonRuns(db, p, ret.required_slots)
    IN (p # <<>> /\ runs # {}) =>
         /\ ret.result.error = None
         /\ Len(ret.result.path) = Len(p)
         /\ \A k \in DOMAIN p :
              /\ ret.result.path[k].link_id = p[k]
              /\ ret.result.path[k].allocated_slots =
                   [j \in 1 .. ret.required_slots |-> Min(runs) + j - 1]

\* two slots asked for on the one-link path over L1 with only slot 0 occupied:
\* slots 1 and 2 are returned
C7_Witness ==
  /\ ret.op = "compute_complete_path"
  /\ ret.source_pop = "A" /\ ret.destination_pop = "B"
  /\ ret.required_slots = 2
  /\ db.slots["L1"] = Slots \ {0}
  /\ ret.result.error = None
  /\ ret.result.path = <<[link_id |-> "L1", allocated_slots |-> <<1, 2>>]>>

C10_RestartRecovers ==
  [][ret'.op = "restart" =>
       /\ DOMAIN connections' =
            {c \in DOMAIN connections :
               connections[c].status \notin {"TERMINATED", "FAILED"}}
       /\ \A c \in DOMAIN connections' :
            connections'[c].status = connections[c].status]_vars

SampleDegraded(sample) ==
  OsnrCritical(sample) \/ OsnrDegraded(sample) \/ BerCritical(sample) \/ BerDegraded(sample)

MerelyDegraded(sample) ==
  /\ OsnrDegraded(sample) \/ BerDegraded(sample)
  /\ ~OsnrCritical(sample) /\ ~BerCritical(sample)

\* the manager calls of a degradation that is handled to the end, with the
\* status each one left
DegradationCalls ==
  <<[op |-> "mark_degraded", ok |-> TRUE, status |-> "DEGRADED"],
    [op |-> "start_reconfiguration", ok |-> TRUE, status |-> "RECONFIGURING"],
    [op |-> "complete_reconfiguration", ok |-> TRUE, status |-> "ACTIVE"]>>

ManagerCall(op, s, conns, connection_id) ==
  CASE op = "start_teardown" -> start_teardown(s, conns, connection_id)
    [] op = "mark_degraded" -> mark_degraded(s, conns, connection_id)
    [] op = "start_reconfiguration" -> start_reconfiguration(s, conns, connection_id, 0)

\* the two calls made one after the other, first then second, from the state
\* the threads started in
InOrder(first, second) ==
  ManagerCall(thr[second].op,
              ManagerCall(thr[first].op, ActiveStore.db, ActiveStore.connections, "c1").db,
              ManagerCall(thr[first].op, ActiveStore.db, ActiveStore.connections, "c1").connections,
              "c1")

\* what the two threads have left is what the order first, second leaves:
\* the status in the index and in the store, and what each call returned
SameAsInOrder(first, second) ==
  /\ connections["c1"].status = InOrder(first, second).connections["c1"].status
  /\ db.records["c1"].status = InOrder(first, second).db.records["c1"].status
  /\ thr[first].ok =
       ManagerCall(thr[first].op, ActiveStore.db, ActiveStore.connections, "c1").ok
  /\ thr[second].ok = InOrder(first, second).ok

Overlap(c, d) == SeqSet(thr[c].slots) \cap SeqSet(thr[d].slots) # {}

\* C16: the store's allocations are atomic compare-and-set. Of two clients
\* that have both returned from allocate_interface for the same interface, at
\* most one was told True; of two clients that have both returned from
\* allocate_spectrum_slots on one link with overlapping slot lists, at most
\* one was told True; and no slot is recorded as held by two connections.
C16_AtomicAllocation ==
  /\ \A c \in DOMAIN thr, d \in DOMAIN thr :
       (/\ c # d /\ thr[c].pc = "done" /\ thr[d].pc = "done"
        /\ thr[c].op = thr[d].op
        /\ thr[c].op = "allocate_spectrum_slots" => Overlap(c, d))
         => ~(thr[c].ok /\ thr[d].ok)
  /\ \A l \in LinkIds : \A c \in DOMAIN db.occupied[l], d \in DOMAIN db.occupied[l] :
       c # d => SeqSet(db.occupied[l][c]) \cap SeqSet(db.occupied[l][d]) = {}

\* C17: allocate_spectrum_slots is all or nothing. A call returns True exactly
\* when every listed slot is free on the link as get_available_slots reports
\* it (the default set when the link has no stored free set); on True exactly
\* the listed slots leave the free set and the list is recorded for the
\* connection; on False the free set and the occupied map are as before.
C17_AllocateAllOrNothing ==
  [][ret'.op = "allocate_spectrum_slots"
       => /\ ret'.ok <=> SeqSet(ret'.slots) \subseteq FreeSlots(db, ret'.link_id)
          /\ ret'.ok =>
               /\ db'.slots[ret'.link_id] = db.slots[ret'.link_id] \ SeqSet(ret'.slots)
               /\ db'.occupied[ret'.link_id] =
                    DictPut(db.occupied[ret'.link_id], ret'.id, ret'.slots)
          /\ ~ret'.ok =>
               /\ db'.slots[ret'.link_id] = db.slots[ret'.link_id]
               /\ db'.occupied[ret'.link_id] = db.occupied[ret'.link_id]]_vars

ExpectedKey(endpoint) ==
  IF \E a \in DOMAIN agents :
       /\ agents[a].pop_id = endpoint[1] /\ agents[a].router_id = endpoint[2]
       /\ now - agents[a].last_heartbeat[1] < OnlineWindowSec
  THEN CHOOSE a \in DOMAIN agents :
         /\ agents[a].pop_id = endpoint[1] /\ agents[a].router_id = endpoint[2]
         /\ now - agents[a].last_heartbeat[1] < OnlineWindowSec
  ELSE endpoint

\* C20: commands flow to offline agents too. Every dispatch of a setup or
\* reconfiguration command sends one command per endpoint, under the id of the
\* registered agent when its heartbeat is less than 60 s old and under the
\* synthetic id of the POP and router otherwise.
C20_DispatchAlwaysSends ==
  [][ret'.op \in {"dispatch_setup_command", "dispatch_reconfig_command"}
       => bus' = bus \o [i \in DOMAIN ret'.endpoints |-> ExpectedKey(ret'.endpoints[i])]]_vars

\* C21: no lock across a manager call or a store write. The step of a
\* callback that calls the Connection Manager is made by a thread that does
\* not hold the monitor's lock, and a step that writes the store is made while
\* no thread holds the monitor's lock or the registry's lock.
C21_NoLockAcrossManagerCall ==
  [][/\ \A t \in LockThreads :
          (thr[t].pc \in {"telemetry", "sweep"} /\ thr'[t].pc = "release"
             /\ ret'.calls # <<>>)
            => "monitor" \notin thr[t].held
     /\ db' # db =>
          \A t \in LockThreads : thr[t].held \cap {"monitor", "registry"} = {}]_vars

\* C22: create and activate. On the link from A to B with every slot free, a
\* request for 400 Gbps with DP-16QAM succeeds with slots 0 and 1 and status
\* SETUP_IN_PROGRESS; complete_setup on it then returns success, makes it
\* ACTIVE and leaves every slot from 2 on free. Every successful
\* create_connection leaves the connection SETUP_IN_PROGRESS, and
\* complete_setup moves a SETUP_IN_PROGRESS connection to ACTIVE.
C22_CreateAndActivate ==
  [][/\ (ret'.op = "create_connection" /\ ret'.bandwidth_gbps = 400
           /\ db = ScenarioStore)
          => /\ ret'.ok
             /\ connections'[ret'.id].status = "SETUP_IN_PROGRESS"
             /\ connections'[ret'.id].path =
                  <<[link_id |-> "L1", allocated_slots |-> <<0, 1>>]>>
     /\ (ret'.op = "create_connection" /\ ret'.ok)
          => connections'[ret'.id].status = "SETUP_IN_PROGRESS"
     /\ (/\ ret'.op = "complete_setup"
         /\ ret'.id \in DOMAIN connections
         /\ connections[ret'.id].status = "SETUP_IN_PROGRESS")
          => /\ ret'.ok
             /\ connections'[ret'.id].status = "ACTIVE"
             /\ (ret.op = "create_connection" /\ ret.bandwidth_gbps = 400
                   /\ DOMAIN db.records = {ret'.id})
                  => FreeSlots(db', "L1") = 2 .. (ScenarioSlots - 1)]_vars

\* the slots a request needs and the links of its path
RequiredSlots(request) ==
  calculate_required_slots(request.bandwidth_gbps, request.modulation)

RequestLinks(request) ==
  SeqSet(compute_shortest_path(request.source_pop, request.destination_pop))

C24_Contiguity ==
  (ret.op = "compute_complete_path" /\ ret.result.error = None) =>
    \A k \in DOMAIN ret.result.path :
      /\ Len(ret.result.path[k].allocated_slots) = ret.required_slots
      /\ \A j \in 1 .. ret.required_slots :
           ret.result.path[k].allocated_slots[j] =
             ret.result.path[k].allocated_slots[1] + j - 1

\* two slots asked for from A to C with slots 0 and 1 free on L1 and slots 1
\* and 2 free on L2: no run is common, and each segment gets the run of its
\* own link
C24_Witness ==
  /\ ret.op = "compute_complete_path"
  /\ ret.required_slots = 2
  /\ db.slots["L1"] = {0, 1} /\ db.slots["L2"] = {1, 2}
  /\ ret.result.error = None
  /\ ret.result.path = <<[link_id |-> "L1", allocated_slots |-> <<0, 1>>],
                         [link_id |-> "L2", allocated_slots |-> <<1, 2>>]>>

Attributed(s, conns, link_id) ==
  UNION {SeqSet(s.occupied[link_id][c]) :
           c \in DOMAIN s.occupied[link_id] \cap DOMAIN conns}

\* C26: a duplicate identifier. create_connection with an identifier that
\* already names a connection of the index leaves that connection's entry in
\* the index, its record in the store and the slots it holds as they were, and
\* every slot that is not free afterwards is attributed to a connection of the
\* index.
C26_DuplicateIdLeavesConnection ==
  [][(ret'.op = "create_connection" /\ ret'.id \in DOMAIN connections)
     => /\ ret'.id \in DOMAIN connections'
        /\ connections'[ret'.id] = connections[ret'.id]
        /\ db'.records = db.records
        /\ db'.occupied = db.occupied
        /\ \A l \in LinkIds :
             ScenarioStore.slots[l] \ db'.slots[l] \subseteq Attributed(db', connections', l)]_vars

StatusOps ==
  {"complete_setup", "mark_degraded", "start_reconfiguration",
   "complete_reconfiguration", "start_teardown"}

ApplyFailed(r) ==
  /\ r.op = "handle_telemetry"
  /\ Len(r.calls) >= 2
  /\ r.calls[Len(r.calls) - 1].op = "start_reconfiguration"
  /\ r.calls[Len(r.calls) - 1].ok
  /\ r.calls[Len(r.calls)].op = "mark_degraded"

Reconfigured(r, q, qn, connection_id) ==
  /\ r.op = "handle_telemetry"
  /\ r.id = connection_id
  /\ \/ \E i \in DOMAIN r.calls : r.calls[i].op = "complete_reconfiguration"
     \/ /\ connection_id \in DOMAIN qn
        /\ qn[connection_id].reconfig_count > StateOf(q, connection_id).reconfig_count
     \/ /\ connection_id \in DOMAIN qn
        /\ qn[connection_id].cooldown_until # StateOf(q, connection_id).cooldown_until

C34_TelemetryReachesMonitor ==
  [][(ret'.op = "route_monitoring_message"
      /\ ret'.msg.type \in {"telemetry", "qotTelemetry"})
     => /\ ret'.callbacks = <<"telemetry">>
        /\ ret'.id \in DOMAIN qot'
        /\ qot'[ret'.id].samples =
             add_sample(StateOf(qot, ret'.id), ret'.msg.sample).samples
        /\ is_in_cooldown(StateOf(qot, ret'.id), now) =>
             /\ <<db', connections'>> = <<db, connections>>
             /\ qot'[ret'.id] = add_sample(StateOf(qot, ret'.id), ret'.msg.sample)]_vars

\* a sample that is critical, by OSNR or by BER
SampleCritical(sample) == OsnrCritical(sample) \/ BerCritical(sample)

\* the level the N most recent samples call for: each sample counts once
LevelOf(recent) ==
  IF \A i \in DOMAIN recent : SampleCritical(recent[i]) THEN "CRITICAL"
  ELSE IF \A i \in DOMAIN recent : SampleDegraded(recent[i]) THEN "DEGRADED"
  ELSE "NORMAL"

\* C35: the degradation level. After a sample has been handled outside
\* cooldown with at least PERSISTENCY_SAMPLES samples in the FIFO, the level
\* is CRITICAL if the PERSISTENCY_SAMPLES most recent samples are all
\* critical, otherwise DEGRADED if they are all degraded or critical,
\* otherwise NORMAL.
C35_DegradationLevel ==
  [][(/\ ret'.op = "handle_telemetry"
      /\ ~is_in_cooldown(StateOf(qot, ret'.id), now)
      /\ Len(qot'[ret'.id].samples) >= PERSISTENCY_SAMPLES)
     => qot'[ret'.id].degradation_level =
          LevelOf(get_recent_samples(qot'[ret'.id].samples, PERSISTENCY_SAMPLES))]_vars

\* the sample calls for more power: its OSNR or its BER is out of range
CallsForMorePower(sample) ==
  \/ sample.osnr # <<>> /\ sample.osnr[1] < OSNR_THRESHOLD
  \/ sample.pre_fec_ber # <<>> /\ sample.pre_fec_ber[1] > BER_THRESHOLD

\* C36: the power adjustment. For a sample whose OSNR is below the
\* threshold or whose BER is above it, the adjustment is +TX_STEP_DB on both
\* ends, and under ADJUST_MODE source (destination) the delta of the
\* destination (source) is 0.
C36_PowerAdjustment ==
  ret.op = "calculate_power_adjustment"
    => /\ ret.adjust_mode = "source" => ret.adjustment.destination_tx_adjustment = 0
       /\ ret.adjust_mode = "destination" => ret.adjustment.source_tx_adjustment = 0
       /\ CallsForMorePower(ret.sample) =>
            /\ ret.adjust_mode # "destination"
                 => ret.adjustment.source_tx_adjustment = TX_STEP_DB
            /\ ret.adjust_mode # "source"
                 => ret.adjustment.destination_tx_adjustment = TX_STEP_DB

\* the level of connection c calls for recovery: it is DEGRADED or CRITICAL
\* and the PERSISTENCY_SAMPLES most recent samples are all within thresholds
Recoverable(q, c) ==
  /\ q[c].degradation_level \in {"DEGRADED", "CRITICAL"}
  /\ Len(q[c].samples) >= PERSISTENCY_SAMPLES
  /\ \A i \in DOMAIN get_recent_samples(q[c].samples, PERSISTENCY_SAMPLES) :
       Recovered(get_recent_samples(q[c].samples, PERSISTENCY_SAMPLES)[i])

StartsReconfiguration(r) ==
  /\ r.op = "handle_telemetry"
  /\ \E i \in DOMAIN r.calls : r.calls[i].op = "start_reconfiguration"

\* C38: one reconfiguration per change of level. A monitor step that starts
\* a reconfiguration has changed the level of the connection to DEGRADED or
\* CRITICAL and found the connection ACTIVE; a step that leaves the level as
\* it was starts none.
C38_ReconfiguresOnLevelChange ==
  [][StartsReconfiguration(ret')
     => /\ qot'[ret'.id].degradation_level \in {"DEGRADED", "CRITICAL"}
        /\ qot'[ret'.id].degradation_level # StateOf(qot, ret'.id).degradation_level
        /\ ret'.id \in DOMAIN connections
        /\ connections[ret'.id].status = "ACTIVE"]_vars

\* a degraded sample has been handled after a reconfiguration and after its
\* cooldown, the three most recent samples being degraded and the connection
\* ACTIVE, and no call was made
C38_Witness ==
  /\ ret.op = "handle_telemetry"
  /\ ret.calls = <<>>
  /\ ret.id \in DOMAIN connections
  /\ connections[ret.id].status = "ACTIVE"
  /\ qot[ret.id].reconfig_count = 1
  /\ qot[ret.id].degradation_level = "DEGRADED"
  /\ qot[ret.id].cooldown_until # <<>>
  /\ now > qot[ret.id].cooldown_until[1]
  /\ \A i \in DOMAIN qot[ret.id].samples : MerelyDegraded(qot[ret.id].samples[i])

\* the callback list a type tag selects, the tag taken in lower case
ListFor(tag) ==
  IF tag \in {"agenthealth", "heartbeat"} THEN <<"heartbeat">>
  ELSE IF tag \in {"telemetry", "qottelemetry"} THEN <<"telemetry">>
  ELSE IF tag = "commandack" THEN <<"ack">>
  ELSE <<>>

\* C39: routing by type tag. A routed record has been delivered to the
\* callbacks of the one list its type tag selects, whatever the case of the
\* tag, and to no callback when the tag is none of the five.
C39_RoutedByType ==
  ret.op = "route_monitoring_message"
    => ret.callbacks = ListFor(Lower[ret.msg.type])

\* the seconds since agent a of registry ag was last heard from, at time t
SilentFor(ag, a, t) == t - ag[a].last_heartbeat[1]

\* C40: online agents and the reaper. The agents reported online are those
\* last heard from less than 60 seconds ago; a reaper pass removes every
\* agent last heard from more than 300 seconds ago, and after it the
\* registry holds no such agent.
C40_OnlineAndReaped ==
  [][/\ ret'.op = "get_online_agents"
          => ret'.online = {a \in DOMAIN agents : SilentFor(agents, a, now) < 60}
     /\ ret'.op = "periodic_cleanup"
          => /\ \A a \in DOMAIN agents :
                  SilentFor(agents, a, now) > 300 => a \notin DOMAIN agents'
             /\ \A a \in DOMAIN agents' : SilentFor(agents', a, now) <= 300]_vars

\* a reaper pass has removed a1, silent for 301 seconds, and kept a2, silent
\* for 300
C40_Witness ==
  /\ ret.op = "periodic_cleanup"
  /\ ret.removed = {"a1"}
  /\ "a2" \in DOMAIN agents
  /\ SilentFor(agents, "a2", now) = 300

=============================================================================
